---- MODULE Spec2Model ----
(***************************************************************************)
(* Model of richgrove/validation: the rule operand model, the operators,   *)
(* the rule definition parser, the rule registry guarded by RegRuleLock,   *)
(* the input projector and the sequential and fan-out evaluators.          *)
(*                                                                         *)
(* Go strings are TLA+ strings (Len, SubSeq and \o work on them).  A Go    *)
(* interface{} value is a record tagged by t; a decoded JSON value is a    *)
(* record tagged by jt.  A Go error is a string, NoErr when nil.           *)
(***************************************************************************)
EXTENDS Integers, Sequences, FiniteSets, TLC

\* ------------------------------------------------------------------------
\* Go values (interface{}) and errors
\* ------------------------------------------------------------------------
NoErr == "nil"
ParseRuleOperatorError == "rule parser: incorrect operands"
ParseRuleJsonDecodingError == "rule parser: JSON unmarshal invalid object value"
ParseRuleUnknownOperatorError == "rule parser: JSON unmarshal unknown operator"
AtoiSyntaxError == "strconv.Atoi: invalid syntax"
RegexpCompileError == "error parsing regexp"

StrV(s) == [t |-> "string", s |-> s]
IntV(n) == [t |-> "int", n |-> n]
BoolV(b) == [t |-> "bool", b |-> b]
NilV == [t |-> "nil"]

\* a (value, error) pair as returned by Evaluate and by an OperatorFn
Ret(v, e) == [val |-> v, err |-> e]

\* ------------------------------------------------------------------------
\* strconv and regexp, as far as the operators use them
\* ------------------------------------------------------------------------
Digits == <<"0", "1", "2", "3", "4", "5", "6", "7", "8", "9">>

CharAt(s, i) == SubSeq(s, i, i)

IsDigit(c) == \E d \in 1..10 : Digits[d] = c

DigitVal(c) == (CHOOSE d \in 1..10 : Digits[d] = c) - 1

RECURSIVE DigitsToInt(_, _)
\* value of the first n characters of the digit string s
DigitsToInt(s, n) ==
    IF n = 0 THEN 0
    ELSE 10 * DigitsToInt(s, n - 1) + DigitVal(CharAt(s, n))

\* strconv.Atoi: optional sign, then one or more decimal digits
Atoi(s) ==
    LET signed == Len(s) > 0 /\ CharAt(s, 1) \in {"+", "-"}
        body == IF signed THEN SubSeq(s, 2, Len(s)) ELSE s
        ok == Len(body) > 0 /\ \A i \in 1..Len(body) : IsDigit(CharAt(body, i))
        mag == DigitsToInt(body, Len(body))
    IN  IF ~ok THEN [n |-> 0, err |-> AtoiSyntaxError]
        ELSE [n |-> IF signed /\ CharAt(s, 1) = "-" THEN 0 - mag ELSE mag,
              err |-> NoErr]

RECURSIVE NatToDigits(_)
NatToDigits(n) ==
    IF n < 10 THEN Digits[n + 1]
    ELSE NatToDigits(n \div 10) \o Digits[(n % 10) + 1]

\* strconv.Itoa
Itoa(n) == IF n < 0 THEN "-" \o NatToDigits(0 - n) ELSE NatToDigits(n)

\* regexp.MatchString for patterns built from literal characters, ".",
\* "^" and "$"; an unclosed "(" or a trailing "\" does not compile.
RegexpCompiles(pat) ==
    /\ \A i \in 1..Len(pat) : CharAt(pat, i) # "("
    /\ (Len(pat) = 0 \/ CharAt(pat, Len(pat)) # "\\")

RECURSIVE RegexpMatchAt(_, _, _, _)
\* pattern positions i.. match the subject starting at position j
RegexpMatchAt(pat, i, s, j) ==
    IF i > Len(pat) THEN TRUE
    ELSE LET c == CharAt(pat, i)
         IN  CASE c = "^" -> j = 1 /\ RegexpMatchAt(pat, i + 1, s, j)
               [] c = "$" -> j = Len(s) + 1 /\ RegexpMatchAt(pat, i + 1, s, j)
               [] c = "." -> j <= Len(s) /\ RegexpMatchAt(pat, i + 1, s, j + 1)
               [] OTHER -> /\ j <= Len(s)
                           /\ CharAt(s, j) = c
                           /\ RegexpMatchAt(pat, i + 1, s, j + 1)

RegexpMatchString(pat, s) ==
    IF ~RegexpCompiles(pat) THEN [match |-> FALSE, err |-> RegexpCompileError]
    ELSE [match |-> \E j \in 1..(Len(s) + 1) : RegexpMatchAt(pat, 1, s, j),
          err |-> NoErr]

\* ------------------------------------------------------------------------
\* RegisteredOperators
\* ------------------------------------------------------------------------
OperatorNames == {"LENGTH", "EQUAL_TO", "GREATER_THAN", "OR", "AND", "REGEX_MATCH"}

LengthOperator(operands) ==
    IF Len(operands) # 1 THEN Ret(NilV, ParseRuleOperatorError)
    ELSE IF operands[1].t = "string" THEN Ret(IntV(Len(operands[1].s)), NoErr)
    ELSE Ret(NilV, ParseRuleOperatorError)

\* EqualToString without the int case: an int is left at the zero value ""
EqualToString_IntAsZeroValue(v) ==
    CASE v.t = "string" -> v.s
      [] OTHER -> ""

\* the string EQUAL_TO compares: the value itself, an int through Itoa,
\* and the zero value "" for every other type
EqualToString(v) ==
    CASE v.t = "string" -> v.s
      [] v.t = "int" -> Itoa(v.n)
      [] OTHER -> ""

EqualToOperator(operands) ==
    IF Len(operands) # 2 THEN Ret(NilV, ParseRuleOperatorError)
    ELSE Ret(BoolV(EqualToString(operands[1]) = EqualToString(operands[2])), NoErr)

\* the int GREATER_THAN compares: a string through Atoi, the int itself,
\* and the zero value 0 for every other type
GreaterThanInt(v) ==
    CASE v.t = "string" -> Atoi(v.s)
      [] v.t = "int" -> [n |-> v.n, err |-> NoErr]
      [] OTHER -> [n |-> 0, err |-> NoErr]

GreaterThanOperator(operands) ==
    IF Len(operands) # 2 THEN Ret(NilV, ParseRuleOperatorError)
    ELSE LET v1 == GreaterThanInt(operands[1])
             v2 == GreaterThanInt(operands[2])
         IN  IF v1.err # NoErr THEN Ret(NilV, v1.err)
             ELSE IF v2.err # NoErr THEN Ret(NilV, v2.err)
             ELSE Ret(BoolV(v1.n > v2.n), NoErr)

OrOperator(operands) ==
    IF Len(operands) # 2 THEN Ret(NilV, ParseRuleOperatorError)
    ELSE IF operands[1].t = operands[2].t /\ operands[1].t = "bool"
         THEN Ret(BoolV(operands[1].b \/ operands[2].b), NoErr)
    ELSE Ret(NilV, ParseRuleOperatorError)

AndOperator(operands) ==
    IF Len(operands) # 2 THEN Ret(NilV, ParseRuleOperatorError)
    ELSE IF operands[1].t = operands[2].t /\ operands[1].t = "bool"
         THEN Ret(BoolV(operands[1].b /\ operands[2].b), NoErr)
    ELSE Ret(NilV, ParseRuleOperatorError)

RegexMatchOperator(operands) ==
    IF Len(operands) # 2 THEN Ret(NilV, ParseRuleOperatorError)
    ELSE IF operands[1].t = operands[2].t /\ operands[1].t = "string"
         THEN LET m == RegexpMatchString(operands[1].s, operands[2].s)
              IN  IF m.err # NoErr THEN Ret(NilV, m.err)
                  ELSE Ret(BoolV(m.match), NoErr)
    ELSE Ret(NilV, ParseRuleOperatorError)

\* RegisteredOperators[op](operands)
RegisteredOperators(op, operands) ==
    CASE op = "LENGTH" -> LengthOperator(operands)
      [] op = "EQUAL_TO" -> EqualToOperator(operands)
      [] op = "GREATER_THAN" -> GreaterThanOperator(operands)
      [] op = "OR" -> OrOperator(operands)
      [] op = "AND" -> AndOperator(operands)
      [] op = "REGEX_MATCH" -> RegexMatchOperator(operands)

\* ------------------------------------------------------------------------
\* Operand model
\* ------------------------------------------------------------------------
FieldOperand(name) == [kind |-> "FieldOperand", Name |-> name]
ValueOperand(value) == [kind |-> "ValueOperand", Value |-> value]
TermOperand(op, parsed, list) ==
    [kind |-> "TermOperand", ParseOperator |-> op, ParseOperands |-> parsed,
     OperandList |-> list]
NilOperand == [kind |-> "nil"]

RECURSIVE Evaluate(_, _)
RECURSIVE EvaluateOperands(_, _, _, _)
\* the loop of TermOperand.Evaluate from child i on: the values of the
\* children in child order, or the first child error
EvaluateOperands(list, i, acc, fieldValue) ==
    IF i > Len(list) THEN [vals |-> acc, err |-> NoErr]
    ELSE LET r == Evaluate(list[i], fieldValue)
         IN  IF r.err # NoErr THEN [vals |-> acc, err |-> r.err]
             ELSE EvaluateOperands(list, i + 1, Append(acc, r.val), fieldValue)

Evaluate(operand, fieldValue) ==
    CASE operand.kind = "FieldOperand" -> Ret(StrV(fieldValue), NoErr)
      [] operand.kind = "ValueOperand" -> Ret(StrV(operand.Value), NoErr)
      [] operand.kind = "TermOperand" ->
            IF Len(operand.OperandList) = 0 THEN Ret(NilV, NoErr)
            ELSE LET r == EvaluateOperands(operand.OperandList, 1, << >>, fieldValue)
                 IN  IF r.err # NoErr THEN Ret(NilV, r.err)
                     ELSE RegisteredOperators(operand.ParseOperator, r.vals)

\* ------------------------------------------------------------------------
\* Rule definition parser
\* ------------------------------------------------------------------------
\* decoded JSON values
JObj(m) == [jt |-> "object", m |-> m]
JStr(s) == [jt |-> "string", s |-> s]
JList(items) == [jt |-> "list", items |-> items]
JNum(n) == [jt |-> "number", n |-> n]
JBool(b) == [jt |-> "bool", b |-> b]
JNull == [jt |-> "null"]

\* a runtime panic (failed type assertion), as opposed to a returned error
PanicErr == "panic: interface conversion"

\* Term: the temporary result of UnmarshalJSON; Value is one of the three
\* operand structs, or nil when nothing was decoded into it
Term(value) == [Value |-> value]

\* json.Unmarshal of one key into a Go string field: a JSON string is
\* stored, null and an absent key leave the zero value, anything else is
\* an UnmarshalTypeError
DecodeStringKey(m, key) ==
    IF key \notin DOMAIN m THEN [s |-> "", ok |-> TRUE]
    ELSE CASE m[key].jt = "string" -> [s |-> m[key].s, ok |-> TRUE]
           [] m[key].jt = "null" -> [s |-> "", ok |-> TRUE]
           [] OTHER -> [s |-> "", ok |-> FALSE]

RECURSIVE UnmarshalJSON(_)
RECURSIVE UnmarshalOperands(_, _, _)
\* json.Unmarshal of the elements of "operands" into []Term from element i
\* on: each element goes through Term.UnmarshalJSON, the first failure ends
\* the decoding
UnmarshalOperands(items, i, acc) ==
    IF i > Len(items) THEN [terms |-> acc, err |-> NoErr]
    ELSE LET r == UnmarshalJSON(items[i])
         IN  IF r.err # NoErr THEN [terms |-> acc, err |-> r.err]
             ELSE UnmarshalOperands(items, i + 1, Append(acc, r.term))

\* json.Unmarshal(data, &term) for the TermOperand struct
DecodeTermOperand(m) ==
    LET op == DecodeStringKey(m, "operator")
        ops == IF "operands" \notin DOMAIN m \/ m["operands"].jt = "null"
                 THEN [terms |-> << >>, err |-> NoErr]
               ELSE IF m["operands"].jt = "list"
                 THEN UnmarshalOperands(m["operands"].items, 1, << >>)
               ELSE [terms |-> << >>, err |-> ParseRuleJsonDecodingError]
    IN  [term |-> TermOperand(op.s, ops.terms, << >>),
         err |-> IF ops.err = PanicErr THEN PanicErr
                 ELSE IF ops.err # NoErr \/ ~op.ok THEN ParseRuleJsonDecodingError
                 ELSE NoErr]

\* Term.UnmarshalJSON with the value key looked up before the field key
UnmarshalJSON_ValueFirst(data) ==
    IF data.jt # "object" THEN [term |-> Term(NilOperand), err |-> PanicErr]
    ELSE LET m == data.m IN
      IF "value" \in DOMAIN m THEN
          LET v == DecodeStringKey(m, "value")
          IN  IF ~v.ok THEN [term |-> Term(NilOperand), err |-> ParseRuleJsonDecodingError]
              ELSE [term |-> Term(ValueOperand(v.s)), err |-> NoErr]
      ELSE IF "field" \in DOMAIN m THEN
          LET f == DecodeStringKey(m, "field")
          IN  IF ~f.ok THEN [term |-> Term(NilOperand), err |-> ParseRuleJsonDecodingError]
              ELSE [term |-> Term(FieldOperand(f.s)), err |-> NoErr]
      ELSE IF "operator" \in DOMAIN m THEN
          LET d == DecodeTermOperand(m)
          IN  IF d.err = PanicErr THEN [term |-> Term(NilOperand), err |-> PanicErr]
              ELSE IF d.err # NoErr
                THEN [term |-> Term(NilOperand), err |-> ParseRuleJsonDecodingError]
              ELSE IF d.term.ParseOperator \in OperatorNames
                THEN [term |-> Term(d.term), err |-> NoErr]
              ELSE [term |-> Term(NilOperand), err |-> ParseRuleUnknownOperatorError]
      ELSE [term |-> Term(NilOperand), err |-> ParseRuleJsonDecodingError]

\* Term.UnmarshalJSON
UnmarshalJSON(data) ==
    IF data.jt # "object" THEN [term |-> Term(NilOperand), err |-> PanicErr]
    ELSE LET m == data.m IN
      IF "field" \in DOMAIN m THEN
          LET f == DecodeStringKey(m, "field")
          IN  IF ~f.ok THEN [term |-> Term(NilOperand), err |-> ParseRuleJsonDecodingError]
              ELSE [term |-> Term(FieldOperand(f.s)), err |-> NoErr]
      ELSE IF "value" \in DOMAIN m THEN
          LET v == DecodeStringKey(m, "value")
          IN  IF ~v.ok THEN [term |-> Term(NilOperand), err |-> ParseRuleJsonDecodingError]
              ELSE [term |-> Term(ValueOperand(v.s)), err |-> NoErr]
      ELSE IF "operator" \in DOMAIN m THEN
          LET d == DecodeTermOperand(m)
          IN  IF d.err = PanicErr THEN [term |-> Term(NilOperand), err |-> PanicErr]
              ELSE IF d.err # NoErr
                THEN [term |-> Term(NilOperand), err |-> ParseRuleJsonDecodingError]
              ELSE IF d.term.ParseOperator \in OperatorNames
                THEN [term |-> Term(d.term), err |-> NoErr]
              ELSE [term |-> Term(NilOperand), err |-> ParseRuleUnknownOperatorError]
      ELSE [term |-> Term(NilOperand), err |-> ParseRuleJsonDecodingError]

\* decoder.Decode(&r) for a RuleNode {name, rule}: the error of the rule's
\* Term.UnmarshalJSON is returned as it is
DecodeRuleNode(node) ==
    IF node.jt # "object" THEN [Name |-> "", RuleContent |-> Term(NilOperand),
                                err |-> ParseRuleJsonDecodingError]
    ELSE LET name == DecodeStringKey(node.m, "name")
             rule == IF "rule" \in DOMAIN node.m THEN UnmarshalJSON(node.m["rule"])
                     ELSE [term |-> Term(NilOperand), err |-> NoErr]
         IN  [Name |-> name.s, RuleContent |-> rule.term,
              err |-> IF rule.err # NoErr THEN rule.err
                      ELSE IF ~name.ok THEN ParseRuleJsonDecodingError
                      ELSE NoErr]

UnknownRuleOperandError == "unknown rule operand"

RECURSIVE ConstructOperandListHelper(_, _)
RECURSIVE ConstructOperandList(_, _, _, _)
\* the loop of ConstructOperandListHelper over v.ParseOperands from i on
ConstructOperandList(parsed, i, acc, fieldList) ==
    IF i > Len(parsed) THEN [list |-> acc, err |-> NoErr, fieldList |-> fieldList]
    ELSE LET r == ConstructOperandListHelper(parsed[i], fieldList)
         IN  IF r.err # NoErr
               THEN [list |-> acc, err |-> r.err, fieldList |-> r.fieldList]
             ELSE ConstructOperandList(parsed, i + 1, Append(acc, r.operand), r.fieldList)

\* fieldList is the key set of the Go map[string]int
ConstructOperandListHelper(t, fieldList) ==
    LET v == t.Value IN
    CASE v.kind = "TermOperand" ->
            LET r == ConstructOperandList(v.ParseOperands, 1, v.OperandList, fieldList)
            IN  IF r.err # NoErr
                  THEN [operand |-> NilOperand, err |-> r.err, fieldList |-> r.fieldList]
                ELSE [operand |-> TermOperand(v.ParseOperator, v.ParseOperands, r.list),
                      err |-> NoErr, fieldList |-> r.fieldList]
      [] v.kind = "FieldOperand" ->
            [operand |-> v, err |-> NoErr, fieldList |-> fieldList \cup {v.Name}]
      [] v.kind = "ValueOperand" ->
            [operand |-> v, err |-> NoErr, fieldList |-> fieldList]
      [] OTHER -> [operand |-> NilOperand, err |-> UnknownRuleOperandError,
                   fieldList |-> fieldList]

\* ------------------------------------------------------------------------
\* Input projector
\* ------------------------------------------------------------------------
EmptyMap == [k \in {} |-> ""]

MapPut(f, k, v) == [q \in DOMAIN f \cup {k} |-> IF q = k THEN v ELSE f[q]]

DuplicatedFieldError(fieldName) == "parse input JSON: duplicated field name, " \o fieldName
UnknownFieldTypeError == "parse input JSON: unknown field type"

\* the prefix parseInputJSON hands down for the key k
NestedPrefix(fieldPrefix, k) ==
    IF Len(fieldPrefix) = 0 THEN k \o "." ELSE fieldPrefix \o "." \o k \o "."

RECURSIVE ParseInputKeys(_, _, _, _)
RECURSIVE ParseInputValue(_, _, _, _)
RECURSIVE ParseInputSlice(_, _, _, _)
\* parseInputJSON: Go ranges over fieldData in an unspecified order, so the
\* result is the set of [fields, err] outcomes over all orders of the keys
\* in todo; an error outcome carries no fields (the caller drops them)
ParseInputKeys(fields, fieldPrefix, fieldData, todo) ==
    IF todo = {} THEN {[fields |-> fields, err |-> NoErr]}
    ELSE UNION { UNION { IF r.err # NoErr THEN {r}
                         ELSE ParseInputKeys(r.fields, fieldPrefix, fieldData, todo \ {k})
                         : r \in ParseInputValue(fields, fieldPrefix, k, fieldData[k]) }
                 : k \in todo }

\* ParseInputValue with a value of an unknown type skipped, like the
\* elements of a list that are not objects
ParseInputValue_SkipsUnknownType(fields, fieldPrefix, k, v) ==
    CASE v.jt = "string" ->
            LET fieldName == fieldPrefix \o k
            IN  IF fieldName \in DOMAIN fields
                  THEN {[fields |-> EmptyMap, err |-> DuplicatedFieldError(fieldName)]}
                ELSE {[fields |-> MapPut(fields, fieldName, v.s), err |-> NoErr]}
      [] v.jt = "object" ->
            ParseInputKeys(fields, NestedPrefix(fieldPrefix, k), v.m, DOMAIN v.m)
      [] v.jt = "list" ->
            ParseInputSlice(fields, NestedPrefix(fieldPrefix, k), v.items, 1)
      [] OTHER -> {[fields |-> fields, err |-> NoErr]}

\* the body of the loop for one key k with value v
ParseInputValue(fields, fieldPrefix, k, v) ==
    CASE v.jt = "string" ->
            LET fieldName == fieldPrefix \o k
            IN  IF fieldName \in DOMAIN fields
                  THEN {[fields |-> EmptyMap, err |-> DuplicatedFieldError(fieldName)]}
                ELSE {[fields |-> MapPut(fields, fieldName, v.s), err |-> NoErr]}
      [] v.jt = "object" ->
            ParseInputKeys(fields, NestedPrefix(fieldPrefix, k), v.m, DOMAIN v.m)
      [] v.jt = "list" ->
            ParseInputSlice(fields, NestedPrefix(fieldPrefix, k), v.items, 1)
      [] OTHER -> {[fields |-> EmptyMap, err |-> UnknownFieldTypeError]}

\* the loop over the elements of a list from element i on
ParseInputSlice(fields, prefix, slc, i) ==
    IF i > Len(slc) THEN {[fields |-> fields, err |-> NoErr]}
    ELSE IF slc[i].jt = "object"
      THEN UNION { IF r.err # NoErr THEN {r}
                   ELSE ParseInputSlice(r.fields, prefix, slc, i + 1)
                   : r \in ParseInputKeys(fields, prefix, slc[i].m, DOMAIN slc[i].m) }
    ELSE ParseInputSlice(fields, prefix, slc, i + 1)

parseInputJSON(fields, fieldPrefix, fieldData) ==
    ParseInputKeys(fields, fieldPrefix, fieldData, DOMAIN fieldData)

\* ------------------------------------------------------------------------
\* State
\* ------------------------------------------------------------------------
VARIABLES
    rulesJson,           \* the entries of ./rules.json, in file order
    script,              \* per goroutine, the requests it will serve, in order
    AllRegisteredRules,  \* field name -> address of its RegisteredRule map
    heap,                \* the RegisteredRule maps: rule name -> Operand
    RegRuleLock,         \* the RWMutex: its writer and its readers
    pc,                  \* per goroutine, the line it is at
    cur,                 \* per goroutine, the number of requests started
    loc,                 \* per goroutine, the locals of the running call
    ret,                 \* per goroutine, the outcomes of its finished requests
    saved,               \* the (field, name, rule) SaveRuleToRegister returned nil for
    crashed,             \* "no", or how the process died
    call,                \* a function called on its own: its name and arguments
    out                  \* the return of that call, NoOut before it returns

vars == <<rulesJson, script, AllRegisteredRules, heap, RegRuleLock, pc, cur,
          loc, ret, saved, crashed, call, out>>

\* the number of handler goroutines serving requests at the same time
NumHandlers == 3

\* the goroutine running init() and main(), and the handler goroutines
Main == "main"
HandlerNames == <<"h1", "h2", "h3", "h4">>
Handlers == {HandlerNames[n] : n \in 1..NumHandlers}
Procs == {Main} \cup Handlers
NoProc == "none"

\* HTTP status codes and the result strings of the responses
StatusOK == "200 OK"
StatusBadRequest == "400 Bad Request"
StatusInternalServerError == "500 Internal Server Error"
\* no response was written: the handler panicked, or the call was not
\* made through a handler
NoStatus == "no response"

MultiFieldError == "system rule load: rule contains more than one unique field name"
DuplicateRuleError == "system rule load: rule name is duplicaed in the field name"
RequestDecodeError == "json: cannot unmarshal"

\* the zero validationResult / ValidatorState
ZeroResult == [flag |-> FALSE, rules |-> << >>]

LocInit ==
    [i |-> 1, ruleName |-> "", rule |-> NilOperand, fieldName |-> "", rules |-> 0,
     inputFields |-> EmptyMap, visited |-> {}, contexts |-> << >>,
     result |-> ZeroResult, pending |-> {}, state |-> ZeroResult]

\* no function is called on its own while the server runs
NoCall == [fn |-> "none"]
NoOut == [done |-> FALSE]

\* the state after package initialisation of the variables, before init()
\* reads the rule file
InitWith(sources, scripts) ==
    /\ call = NoCall
    /\ out = NoOut
    /\ rulesJson \in sources
    /\ script \in scripts
    /\ AllRegisteredRules = EmptyMap
    /\ heap = << >>
    /\ RegRuleLock = [writer |-> NoProc, readers |-> {}]
    /\ pc = [p \in Procs |-> IF p = Main THEN "load" ELSE "idle"]
    /\ cur = [p \in Procs |-> 0]
    /\ loc = [p \in Procs |-> LocInit]
    /\ ret = [p \in Procs |-> << >>]
    /\ saved = {}
    /\ crashed = "no"

\* ------------------------------------------------------------------------
\* RegRuleLock (sync.RWMutex)
\* ------------------------------------------------------------------------
\* the lines at which a goroutine is blocked in RLock() and in Lock()
RLockLines == {"Save386", "Seq72", "Con80"}
LockLines == {"Save394", "Save402"}

\* the line reached once the lock is held
AfterLock(line) ==
    CASE line = "Save386" -> "Save387"
      [] line = "Seq72" -> "Seq73"
      [] line = "Con80" -> "Con81"
      [] line = "Save394" -> "Save395"
      [] line = "Save402" -> "Save403"

\* RLock() returns: no writer holds the lock and none is waiting for it
RLock(p) ==
    /\ crashed = "no"
    /\ pc[p] \in RLockLines
    /\ RegRuleLock.writer = NoProc
    /\ \A q \in Procs : pc[q] \notin LockLines
    /\ RegRuleLock' = [RegRuleLock EXCEPT !.readers = @ \cup {p}]
    /\ pc' = [pc EXCEPT ![p] = AfterLock(pc[p])]
    /\ UNCHANGED <<call, out, rulesJson, script, AllRegisteredRules, heap, cur, loc, ret,
                   saved, crashed>>

\* Lock() that does not wait for the readers to leave
Lock_IgnoresReaders(p) ==
    /\ crashed = "no"
    /\ pc[p] \in LockLines
    /\ RegRuleLock.writer = NoProc
    /\ RegRuleLock' = [RegRuleLock EXCEPT !.writer = p]
    /\ pc' = [pc EXCEPT ![p] = AfterLock(pc[p])]
    /\ UNCHANGED <<call, out, rulesJson, script, AllRegisteredRules, heap, cur, loc, ret,
                   saved, crashed>>

\* Lock() returns: nobody holds the lock
Lock(p) ==
    /\ crashed = "no"
    /\ pc[p] \in LockLines
    /\ RegRuleLock.writer = NoProc
    /\ RegRuleLock.readers = {}
    /\ RegRuleLock' = [RegRuleLock EXCEPT !.writer = p]
    /\ pc' = [pc EXCEPT ![p] = AfterLock(pc[p])]
    /\ UNCHANGED <<call, out, rulesJson, script, AllRegisteredRules, heap, cur, loc, ret,
                   saved, crashed>>

RUnlock(p) == [RegRuleLock EXCEPT !.readers = @ \ {p}]
Unlock(p) == [RegRuleLock EXCEPT !.writer = NoProc]

\* ------------------------------------------------------------------------
\* SaveRuleToRegister
\* ------------------------------------------------------------------------
\* SaveRuleFieldName with the check count != 1 weakened to count == 0
SaveRuleFieldName_RejectsOnlyEmpty(fieldList) ==
    IF Cardinality(fieldList) = 0 THEN [fieldName |-> "", err |-> MultiFieldError]
    ELSE [fieldName |-> CHOOSE k \in fieldList : TRUE, err |-> NoErr]

\* lines 375-384: the field name of the rule, or the error
SaveRuleFieldName(fieldList) ==
    IF Cardinality(fieldList) # 1 THEN [fieldName |-> "", err |-> MultiFieldError]
    ELSE [fieldName |-> CHOOSE k \in fieldList : TRUE, err |-> NoErr]

\* the response CreateRule writes for the error of its last call
CreateRuleResponse(err) ==
    IF err # NoErr
      THEN [kind |-> "create", err |-> err, status |-> StatusInternalServerError,
            result |-> "error", flag |-> FALSE, rules |-> << >>]
    ELSE [kind |-> "create", err |-> NoErr, status |-> StatusOK,
          result |-> "success", flag |-> FALSE, rules |-> << >>]

\* SaveRuleToRegister returns err to its caller: loadSystemRules drops the
\* error and goes on with the next entry, CreateRule answers the request
SaveReturn(p, err) ==
    /\ saved' = IF err = NoErr
                  THEN saved \cup {[field |-> loc[p].fieldName,
                                    name |-> loc[p].ruleName,
                                    rule |-> loc[p].rule]}
                ELSE saved
    /\ IF p = Main
         THEN /\ pc' = [pc EXCEPT ![p] = "load"]
              /\ loc' = [loc EXCEPT ![p].i = @ + 1]
              /\ UNCHANGED ret
       ELSE /\ pc' = [pc EXCEPT ![p] = "done"]
            /\ ret' = [ret EXCEPT ![p] = Append(@, CreateRuleResponse(err))]
            /\ UNCHANGED loc

\* line 387 and 388, holding the read lock: look the field up, then RUnlock
SaveLookup(p) ==
    /\ crashed = "no"
    /\ pc[p] = "Save387"
    /\ LET exists == loc[p].fieldName \in DOMAIN AllRegisteredRules
       IN  /\ loc' = [loc EXCEPT ![p].rules =
                         IF exists THEN AllRegisteredRules[loc[p].fieldName] ELSE 0]
           /\ pc' = [pc EXCEPT ![p] = IF exists THEN "Save398" ELSE "Save394"]
    /\ RegRuleLock' = RUnlock(p)
    /\ UNCHANGED <<call, out, rulesJson, script, AllRegisteredRules, heap, cur, ret, saved,
                   crashed>>

\* SaveStoreNew with the registry replaced by one that holds the new field only
SaveStoreNew_DropsOtherFields(p) ==
    /\ crashed = "no"
    /\ pc[p] = "Save395"
    /\ heap' = Append(heap, [n \in {loc[p].ruleName} |-> loc[p].rule])
    /\ AllRegisteredRules' = MapPut(EmptyMap, loc[p].fieldName, Len(heap) + 1)
    /\ RegRuleLock' = Unlock(p)
    /\ SaveReturn(p, NoErr)
    /\ UNCHANGED <<call, out, rulesJson, script, cur, crashed>>

\* lines 392-396, holding the write lock: a new map for the field
SaveStoreNew(p) ==
    /\ crashed = "no"
    /\ pc[p] = "Save395"
    /\ heap' = Append(heap, [n \in {loc[p].ruleName} |-> loc[p].rule])
    /\ AllRegisteredRules' = MapPut(AllRegisteredRules, loc[p].fieldName, Len(heap) + 1)
    /\ RegRuleLock' = Unlock(p)
    /\ SaveReturn(p, NoErr)
    /\ UNCHANGED <<call, out, rulesJson, script, cur, crashed>>

\* SaveCheckDuplicate with the duplicate rebound to the new tree before the
\* error is returned
SaveCheckDuplicate_Rebinds(p) ==
    /\ crashed = "no"
    /\ pc[p] = "Save398"
    /\ IF loc[p].ruleName \in DOMAIN heap[loc[p].rules]
         THEN /\ SaveReturn(p, DuplicateRuleError)
              /\ heap' = [heap EXCEPT ![loc[p].rules] =
                             MapPut(@, loc[p].ruleName, loc[p].rule)]
       ELSE /\ pc' = [pc EXCEPT ![p] = "Save402"]
            /\ UNCHANGED <<loc, ret, saved, heap>>
    /\ UNCHANGED <<call, out, rulesJson, script, AllRegisteredRules, RegRuleLock, cur,
                   crashed>>

\* line 398, holding no lock: is the rule name in the map read at line 387
SaveCheckDuplicate(p) ==
    /\ crashed = "no"
    /\ pc[p] = "Save398"
    /\ IF loc[p].ruleName \in DOMAIN heap[loc[p].rules]
         THEN SaveReturn(p, DuplicateRuleError)
       ELSE /\ pc' = [pc EXCEPT ![p] = "Save402"]
            /\ UNCHANGED <<loc, ret, saved>>
    /\ UNCHANGED <<call, out, rulesJson, script, AllRegisteredRules, heap, RegRuleLock, cur,
                   crashed>>

\* lines 403-404, holding the write lock: add to the map read at line 387
SaveStoreAdd(p) ==
    /\ crashed = "no"
    /\ pc[p] = "Save403"
    /\ heap' = [heap EXCEPT ![loc[p].rules] = MapPut(@, loc[p].ruleName, loc[p].rule)]
    /\ RegRuleLock' = Unlock(p)
    /\ SaveReturn(p, NoErr)
    /\ UNCHANGED <<call, out, rulesJson, script, AllRegisteredRules, cur, crashed>>

\* the Go runtime detects the unsynchronised read of line 398 running
\* together with the write of line 403 on the same map and kills the process
ConcurrentMapAccess(p, q) ==
    /\ crashed = "no"
    /\ pc[p] = "Save398"
    /\ pc[q] = "Save403"
    /\ loc[p].rules = loc[q].rules
    /\ crashed' = "fatal error: concurrent map read and map write"
    /\ UNCHANGED <<call, out, rulesJson, script, AllRegisteredRules, heap, RegRuleLock, pc,
                   cur, loc, ret, saved>>

\* ------------------------------------------------------------------------
\* loadSystemRules, called by init()
\* ------------------------------------------------------------------------
\* one turn of the decoder.More() loop up to the call of SaveRuleToRegister
\* and through its lines 375-384; after the last entry main() serves
LoadSystemRules ==
    /\ crashed = "no"
    /\ pc[Main] = "load"
    /\ IF loc[Main].i > Len(rulesJson)
         THEN /\ pc' = [pc EXCEPT ![Main] = "serving"]
              /\ UNCHANGED <<loc, crashed>>
       ELSE LET r == DecodeRuleNode(rulesJson[loc[Main].i])
                c == ConstructOperandListHelper(r.RuleContent, {})
                f == SaveRuleFieldName(c.fieldList)
            IN  IF r.err = PanicErr
                  THEN crashed' = "panic" /\ UNCHANGED <<pc, loc>>
                ELSE IF r.err # NoErr
                  THEN crashed' = "log.Fatal" /\ UNCHANGED <<pc, loc>>
                ELSE IF f.err # NoErr
                  THEN /\ loc' = [loc EXCEPT ![Main].i = @ + 1]
                       /\ UNCHANGED <<pc, crashed>>
                ELSE /\ loc' = [loc EXCEPT ![Main].ruleName = r.Name,
                                           ![Main].rule = c.operand,
                                           ![Main].fieldName = f.fieldName]
                     /\ pc' = [pc EXCEPT ![Main] = "Save386"]
                     /\ UNCHANGED crashed
    /\ UNCHANGED <<call, out, rulesJson, script, AllRegisteredRules, heap, RegRuleLock, cur,
                   ret, saved>>

\* ------------------------------------------------------------------------
\* The handlers
\* ------------------------------------------------------------------------
\* the server routes the next request of p's script to its handler
Accepts(p, kind) ==
    /\ crashed = "no"
    /\ p \in Handlers
    /\ pc[Main] = "serving"
    /\ pc[p] \in {"idle", "done"}
    /\ cur[p] < Len(script[p])
    /\ script[p][cur[p] + 1].kind = kind

Body(p) == script[p][cur[p] + 1].body

\* a handler returns (or panics, which net/http recovers) with outcome r
Finish(p, r) ==
    /\ pc' = [pc EXCEPT ![p] = "done"]
    /\ ret' = [ret EXCEPT ![p] = Append(@, r)]

\* CreateRule up to the call of SaveRuleToRegister and through its lines
\* 375-384
CreateRule(p) ==
    /\ Accepts(p, "create")
    /\ cur' = [cur EXCEPT ![p] = @ + 1]
    /\ LET r == DecodeRuleNode(Body(p))
           c == ConstructOperandListHelper(r.RuleContent, {})
           f == SaveRuleFieldName(c.fieldList)
       IN  IF r.err = PanicErr
             THEN /\ Finish(p, [kind |-> "create", err |-> PanicErr, status |-> NoStatus,
                                result |-> "", flag |-> FALSE, rules |-> << >>])
                  /\ loc' = [loc EXCEPT ![p] = LocInit]
           ELSE IF r.err # NoErr
             THEN /\ Finish(p, CreateRuleResponse(r.err))
                  /\ loc' = [loc EXCEPT ![p] = LocInit]
           ELSE IF c.err # NoErr
             THEN /\ Finish(p, CreateRuleResponse(c.err))
                  /\ loc' = [loc EXCEPT ![p] = LocInit]
           ELSE IF f.err # NoErr
             THEN /\ Finish(p, CreateRuleResponse(f.err))
                  /\ loc' = [loc EXCEPT ![p] = LocInit]
           ELSE /\ loc' = [loc EXCEPT ![p] = [LocInit EXCEPT !.ruleName = r.Name,
                                                            !.rule = c.operand,
                                                            !.fieldName = f.fieldName]]
                /\ pc' = [pc EXCEPT ![p] = "Save386"]
                /\ UNCHANGED ret
    /\ UNCHANGED <<call, out, rulesJson, script, AllRegisteredRules, heap, RegRuleLock, saved,
                   crashed>>

\* DeleteRule has an empty body: net/http answers 200 with no content
DeleteRule(p) ==
    /\ Accepts(p, "delete")
    /\ cur' = [cur EXCEPT ![p] = @ + 1]
    /\ Finish(p, [kind |-> "delete", err |-> NoErr, status |-> StatusOK,
                  result |-> "", flag |-> FALSE, rules |-> << >>])
    /\ loc' = [loc EXCEPT ![p] = LocInit]
    /\ UNCHANGED <<call, out, rulesJson, script, AllRegisteredRules, heap, RegRuleLock, saved,
                   crashed>>

\* ------------------------------------------------------------------------
\* ValidateInputJSONByRules and ValidateInputJSONByRules2
\* ------------------------------------------------------------------------
\* the (field, rule name) pairs the two nested range loops visit
MatchedRules(inputFields) ==
    UNION { { <<k, name>> : name \in DOMAIN heap[AllRegisteredRules[k]] }
            : k \in DOMAIN inputFields \cap DOMAIN AllRegisteredRules }

\* Go ranges over both maps in an unspecified order: every order of the
\* pairs in which the rules of one field stay together
VisitOrders(pairs) ==
    { o \in [1..Cardinality(pairs) -> pairs] :
        /\ \A a, b \in DOMAIN o : a # b => o[a] # o[b]
        /\ \A a, b, c \in DOMAIN o :
              (a < b /\ b < c /\ o[a][1] = o[c][1]) => o[b][1] = o[a][1] }

\* the FieldEvalContext built for each visited pair
ContextsOf(o, inputFields) ==
    [j \in DOMAIN o |->
        [RuleName |-> o[j][2],
         FieldValue |-> inputFields[o[j][1]],
         Rule |-> heap[AllRegisteredRules[o[j][1]]][o[j][2]]]]

\* the response ValidateJSONData writes for the return of
\* ValidateInputJSONByRules
ValidateResponse(err, result) ==
    IF err # NoErr
      THEN [kind |-> "validate", err |-> err, status |-> StatusInternalServerError,
            result |-> "error", flag |-> FALSE, rules |-> << >>]
    ELSE IF result.flag
      THEN [kind |-> "validate", err |-> NoErr, status |-> StatusOK,
            result |-> "success", flag |-> result.flag, rules |-> result.rules]
    ELSE [kind |-> "validate", err |-> NoErr, status |-> StatusBadRequest,
          result |-> "failure", flag |-> result.flag, rules |-> result.rules]

\* the return of ValidateInputJSONByRules2, which no handler calls
Validate2Return(err, result) ==
    [kind |-> "validate2", err |-> err, status |-> NoStatus, result |-> "",
     flag |-> result.flag, rules |-> result.rules]

\* ValidateJSONData and lines 60-67 of ValidateInputJSONByRules: decode the
\* body and project it
ValidateJSONData(p) ==
    /\ Accepts(p, "validate")
    /\ cur' = [cur EXCEPT ![p] = @ + 1]
    /\ IF Body(p).jt # "object"
         THEN /\ Finish(p, ValidateResponse(RequestDecodeError, ZeroResult))
              /\ loc' = [loc EXCEPT ![p] = LocInit]
       ELSE \E r \in parseInputJSON(EmptyMap, "", Body(p).m) :
              IF r.err # NoErr
                THEN /\ Finish(p, ValidateResponse(r.err, ZeroResult))
                     /\ loc' = [loc EXCEPT ![p] = LocInit]
              ELSE /\ loc' = [loc EXCEPT ![p] = [LocInit EXCEPT !.inputFields = r.fields]]
                   /\ pc' = [pc EXCEPT ![p] = "Seq72"]
                   /\ UNCHANGED ret
    /\ UNCHANGED <<call, out, rulesJson, script, AllRegisteredRules, heap, RegRuleLock, saved,
                   crashed>>

\* lines 73-89, holding the read lock: collect the contexts, RUnlock, and
\* start the result with flag = true
ValidateCollect(p) ==
    /\ crashed = "no"
    /\ pc[p] = "Seq73"
    /\ \E o \in VisitOrders(MatchedRules(loc[p].inputFields)) :
          loc' = [loc EXCEPT ![p].contexts = ContextsOf(o, loc[p].inputFields),
                             ![p].result = [flag |-> TRUE, rules |-> << >>],
                             ![p].i = 1]
    /\ RegRuleLock' = RUnlock(p)
    /\ pc' = [pc EXCEPT ![p] = "Seq90"]
    /\ UNCHANGED <<call, out, rulesJson, script, AllRegisteredRules, heap, cur, ret, saved,
                   crashed>>

\* ValidateFold with an evaluation error counted as a violation
ValidateFold_ErrorIsViolation(result, ctx) ==
    LET e == Evaluate(ctx.Rule, ctx.FieldValue)
    IN  IF e.err # NoErr
          THEN [result |-> [flag |-> FALSE, rules |-> Append(result.rules, ctx.RuleName)],
                err |-> NoErr]
        ELSE IF e.val.t # "bool" THEN [result |-> result, err |-> PanicErr]
        ELSE IF ~e.val.b
          THEN [result |-> [flag |-> e.val.b,
                            rules |-> Append(result.rules, ctx.RuleName)],
                err |-> NoErr]
        ELSE [result |-> result, err |-> NoErr]

\* the body of the loop of lines 90-100 for the context ctx
ValidateFold(result, ctx) ==
    LET e == Evaluate(ctx.Rule, ctx.FieldValue)
    IN  IF e.err # NoErr THEN [result |-> result, err |-> NoErr]
        ELSE IF e.val.t # "bool" THEN [result |-> result, err |-> PanicErr]
        ELSE IF ~e.val.b
          THEN [result |-> [flag |-> e.val.b,
                            rules |-> Append(result.rules, ctx.RuleName)],
                err |-> NoErr]
        ELSE [result |-> result, err |-> NoErr]

\* one turn of the loop of lines 90-100, or the return of line 101; a
\* panic of res.(bool) ends the handler without a response
ValidateEvaluate(p) ==
    /\ crashed = "no"
    /\ pc[p] = "Seq90"
    /\ IF loc[p].i > Len(loc[p].contexts)
         THEN /\ Finish(p, ValidateResponse(NoErr, loc[p].result))
              /\ UNCHANGED loc
       ELSE LET f == ValidateFold(loc[p].result, loc[p].contexts[loc[p].i])
            IN  IF f.err = PanicErr
                  THEN /\ Finish(p, [kind |-> "validate", err |-> PanicErr,
                                     status |-> NoStatus, result |-> "",
                                     flag |-> FALSE, rules |-> << >>])
                       /\ UNCHANGED loc
                ELSE /\ loc' = [loc EXCEPT ![p].result = f.result, ![p].i = @ + 1]
                     /\ UNCHANGED <<pc, ret>>
    /\ UNCHANGED <<call, out, rulesJson, script, AllRegisteredRules, heap, RegRuleLock, cur,
                   saved, crashed>>

\* lines 65-72 of ValidateInputJSONByRules2: project the input
Validate2(p) ==
    /\ Accepts(p, "validate2")
    /\ cur' = [cur EXCEPT ![p] = @ + 1]
    /\ \E r \in parseInputJSON(EmptyMap, "", Body(p).m) :
          IF r.err # NoErr
            THEN /\ Finish(p, Validate2Return(r.err, ZeroResult))
                 /\ loc' = [loc EXCEPT ![p] = LocInit]
          ELSE /\ loc' = [loc EXCEPT ![p] = [LocInit EXCEPT !.inputFields = r.fields]]
               /\ pc' = [pc EXCEPT ![p] = "Con80"]
               /\ UNCHANGED ret
    /\ UNCHANGED <<call, out, rulesJson, script, AllRegisteredRules, heap, RegRuleLock, saved,
                   crashed>>

\* lines 81-94, holding the read lock: collect the contexts into the task,
\* RUnlock, and hand the task over with the state ValidatorState{flag: true}
Validate2Collect(p) ==
    /\ crashed = "no"
    /\ pc[p] = "Con81"
    /\ \E o \in VisitOrders(MatchedRules(loc[p].inputFields)) :
          loc' = [loc EXCEPT ![p].contexts = ContextsOf(o, loc[p].inputFields),
                             ![p].state = [flag |-> TRUE, rules |-> << >>],
                             ![p].pending = DOMAIN o]
    /\ RegRuleLock' = RUnlock(p)
    /\ pc' = [pc EXCEPT ![p] = "Con94"]
    /\ UNCHANGED <<call, out, rulesJson, script, AllRegisteredRules, heap, cur, ret, saved,
                   crashed>>

\* the executor createValidatorExecutor builds for ctx, run once
createValidatorExecutor(ctx) ==
    LET e == Evaluate(ctx.Rule, ctx.FieldValue)
    IN  IF e.err # NoErr THEN [state |-> ZeroResult, err |-> NoErr]
        ELSE IF e.val.t # "bool" THEN [state |-> ZeroResult, err |-> PanicErr]
        ELSE [state |-> [flag |-> e.val.b,
                         rules |-> IF ~e.val.b THEN <<ctx.RuleName>> ELSE << >>],
              err |-> NoErr]

\* CombineResult with the flag of the incoming result taken as it is
CombineResult_LastFlagWins(s, r) ==
    [flag |-> r.flag, rules |-> s.rules \o r.rules]

\* ValidatorState.CombineResult
CombineResult(s, r) ==
    [flag |-> IF s.flag THEN r.flag ELSE s.flag, rules |-> s.rules \o r.rules]

\* util.ExecutAppTask: the executors run concurrently, so they finish in
\* any order; the reducer folds each result into the state as it arrives.
\* A panic in an executor goroutine ends the process.
ExecutorRun(p, j) ==
    /\ crashed = "no"
    /\ pc[p] = "Con94"
    /\ j \in loc[p].pending
    /\ LET r == createValidatorExecutor(loc[p].contexts[j])
       IN  IF r.err = PanicErr
             THEN crashed' = "panic" /\ UNCHANGED loc
           ELSE /\ loc' = [loc EXCEPT ![p].state = CombineResult(@, r.state),
                                      ![p].pending = @ \ {j}]
                /\ UNCHANGED crashed
    /\ UNCHANGED <<call, out, rulesJson, script, AllRegisteredRules, heap, RegRuleLock, pc,
                   cur, ret, saved>>

\* lines 94-101: util.ExecutAppTask returns the reduced state
Validate2Result(p) ==
    /\ crashed = "no"
    /\ pc[p] = "Con94"
    /\ loc[p].pending = {}
    /\ Finish(p, Validate2Return(NoErr, loc[p].state))
    /\ UNCHANGED <<call, out, rulesJson, script, AllRegisteredRules, heap, RegRuleLock, cur,
                   loc, saved, crashed>>

\* the contexts the inner range loop appends for the field k
FieldContexts(p, k) ==
    { ContextsOf(o, loc[p].inputFields)
      : o \in VisitOrders(MatchedRules([q \in {k} |-> loc[p].inputFields[q]])) }

\* lines 73-89, holding the read lock, one turn of the loop over inputFields
\* at a time: the contexts of the rules of one more field, or, after the
\* last field, RUnlock and the result started with flag = true
ValidateCollectField(p) ==
    /\ crashed = "no"
    /\ pc[p] = "Seq73"
    /\ LET todo == DOMAIN loc[p].inputFields \ loc[p].visited
       IN  IF todo # {}
             THEN /\ \E k \in todo : \E c \in FieldContexts(p, k) :
                        loc' = [loc EXCEPT ![p].contexts = @ \o c,
                                           ![p].visited = @ \cup {k}]
                  /\ UNCHANGED <<pc, RegRuleLock>>
           ELSE /\ loc' = [loc EXCEPT ![p].result = [flag |-> TRUE, rules |-> << >>],
                                      ![p].i = 1]
                /\ RegRuleLock' = RUnlock(p)
                /\ pc' = [pc EXCEPT ![p] = "Seq90"]
    /\ UNCHANGED <<call, out, rulesJson, script, AllRegisteredRules, heap, cur, ret, saved,
                   crashed>>

\* lines 81-94 of ValidateInputJSONByRules2, holding the read lock, one turn
\* of the loop over inputFields at a time: the contexts of the rules of one
\* more field, or, after the last field, RUnlock and the task handed over
\* with the state ValidatorState{flag: true}
Validate2CollectField(p) ==
    /\ crashed = "no"
    /\ pc[p] = "Con81"
    /\ LET todo == DOMAIN loc[p].inputFields \ loc[p].visited
       IN  IF todo # {}
             THEN /\ \E k \in todo : \E c \in FieldContexts(p, k) :
                        loc' = [loc EXCEPT ![p].contexts = @ \o c,
                                           ![p].visited = @ \cup {k}]
                  /\ UNCHANGED <<pc, RegRuleLock>>
           ELSE /\ loc' = [loc EXCEPT ![p].state = [flag |-> TRUE, rules |-> << >>],
                                      ![p].pending = DOMAIN loc[p].contexts]
                /\ RegRuleLock' = RUnlock(p)
                /\ pc' = [pc EXCEPT ![p] = "Con94"]
    /\ UNCHANGED <<call, out, rulesJson, script, AllRegisteredRules, heap, cur, ret, saved,
                   crashed>>

\* ------------------------------------------------------------------------
\* Rule definitions, documents and requests
\* ------------------------------------------------------------------------
JField(name) == JObj([field |-> JStr(name)])
JValue(value) == JObj([value |-> JStr(value)])
JTerm(op, operands) == JObj([operator |-> JStr(op), operands |-> JList(operands)])
JRule(name, rule) == JObj([name |-> JStr(name), rule |-> rule])

Request(kind, body) == [kind |-> kind, body |-> body]

\* LENGTH(field) > 6, the shape of username_length in rules.json
LengthOver6(field) ==
    JTerm("GREATER_THAN", <<JTerm("LENGTH", <<JField(field)>>), JValue("6")>>)

\* field = "0"
EqualsZero(field) == JTerm("EQUAL_TO", <<JField(field), JValue("0")>>)

\* the sequences that keep at most n entries of list, in the order of list
SubSequences(list, n) ==
    { [j \in 1..Cardinality(S) |->
          list[CHOOSE a \in S : Cardinality({b \in S : b < a}) = j - 1]]
      : S \in { T \in SUBSET (1..Len(list)) : Cardinality(T) <= n } }

\* the scripts in which handler n serves at most the request options[idx[n]];
\* handlers run the same code, so only non-decreasing idx are taken
OneRequestScripts(options) ==
    { [p \in Procs |->
         IF p = Main THEN << >>
         ELSE LET n == CHOOSE m \in 1..NumHandlers : HandlerNames[m] = p
              IN  IF idx[n] = 0 THEN << >> ELSE <<options[idx[n]]>>]
      : idx \in { f \in [1..NumHandlers -> 0..Len(options)] :
                    \A a, b \in 1..NumHandlers : a < b => f[a] <= f[b] } }

\* ------------------------------------------------------------------------
\* Specification of the registry under concurrent requests
\* ------------------------------------------------------------------------
RegSources == { << >>, <<JRule("r0", LengthOver6("password"))>> }

RegRequests ==
    << Request("create", JRule("r1", LengthOver6("password"))),
       Request("create", JRule("r1", EqualsZero("password"))),
       Request("create", JRule("r2", LengthOver6("password"))),
       Request("create", JRule("r1", LengthOver6("username"))),
       Request("validate", JObj([password |-> JStr("tesTer")])) >>

InitReg == InitWith(RegSources, OneRequestScripts(RegRequests))

NextReg ==
    \/ LoadSystemRules
    \/ \E p \in Procs :
          \/ RLock(p)
          \/ Lock(p)
          \/ SaveLookup(p)
          \/ SaveStoreNew(p)
          \/ SaveCheckDuplicate(p)
          \/ SaveStoreAdd(p)
          \/ CreateRule(p)
          \/ ValidateJSONData(p)
          \/ ValidateCollect(p)
          \/ ValidateEvaluate(p)
    \/ \E p, q \in Procs : ConcurrentMapAccess(p, q)

SpecReg == InitReg /\ [][NextReg]_vars

\* ------------------------------------------------------------------------
\* Specification of the two evaluators on one document and one registry
\* ------------------------------------------------------------------------
\* the largest number of entries of rules.json
MaxRules == 3

\* OR(EQUAL_TO(LENGTH(password),0), GREATER_THAN(LENGTH(password),6))
PasswordLength ==
    JTerm("OR", <<JTerm("EQUAL_TO", <<JTerm("LENGTH", <<JField("password")>>),
                                       JValue("0")>>),
                  JTerm("GREATER_THAN", <<JTerm("LENGTH", <<JField("password")>>),
                                           JValue("6")>>)>>)

EvalRules ==
    << JRule("password_length", PasswordLength),
       \* the password as a number: Atoi fails on other passwords
       JRule("password_number", JTerm("GREATER_THAN", <<JField("password"), JValue("6")>>)),
       JRule("username_length", LengthOver6("username")),
       JRule("zip_code_pattern",
             JTerm("REGEX_MATCH", <<JValue("^.....$"), JField("address.zip_code")>>)),
       \* a bare field reference: its value is a string, not a bool
       JRule("password_raw", JField("password")) >>

EvalDocs ==
    { JObj([username |-> JStr("bwillis"), password |-> JStr(""),
            address |-> JObj([zip_code |-> JStr("90067")])]),
      JObj([username |-> JStr("bill"), password |-> JStr("tesTer"),
            email |-> JStr("bruce@willis.com")]),
      JObj([password |-> JStr("123456"),
            address |-> JObj([zip_code |-> JStr("9o06")])]),
      JObj([password |-> JStr("12"), phone |-> JNum(424)]) }

\* handler h1 evaluates one document with both strategies, one after the other
EvalScripts ==
    { [p \in Procs |-> IF p = "h1" THEN <<Request("validate", d), Request("validate2", d)>>
                       ELSE << >>]
      : d \in EvalDocs }

InitEval == InitWith(SubSequences(EvalRules, MaxRules), EvalScripts)

NextEval ==
    \/ LoadSystemRules
    \/ \E p \in Procs :
          \/ RLock(p)
          \/ Lock(p)
          \/ SaveLookup(p)
          \/ SaveStoreNew(p)
          \/ SaveCheckDuplicate(p)
          \/ SaveStoreAdd(p)
          \/ ValidateJSONData(p)
          \/ ValidateCollect(p)
          \/ ValidateEvaluate(p)
          \/ Validate2(p)
          \/ Validate2Collect(p)
          \/ Validate2Result(p)
          \/ \E j \in 1..MaxRules : ExecutorRun(p, j)

SpecEval == InitEval /\ [][NextEval]_vars

\* ------------------------------------------------------------------------
\* Specification of the parser on rule definition trees
\* ------------------------------------------------------------------------
\* the largest depth of a rule definition tree
MaxDepth == 2

TreeLeaves == { JField("password"), JField("username"), JValue("0") }

\* two registered operators and a name that is not registered
TreeOperators == { "OR", "LENGTH", "NOPE" }

RECURSIVE Trees(_)
\* the definition trees of depth d or less: a term has no operand, one
\* operand, or two operands one of which is a leaf
Trees(d) ==
    IF d = 0 THEN TreeLeaves
    ELSE LET sub == Trees(d - 1)
         IN  TreeLeaves
             \cup { JTerm(op, << >>) : op \in TreeOperators }
             \cup { JTerm(op, <<c>>) : op \in TreeOperators, c \in sub }
             \cup { JTerm(op, <<c, l>>) : op \in TreeOperators, c \in sub, l \in TreeLeaves }
             \cup { JTerm(op, <<l, c>>) : op \in TreeOperators, c \in sub, l \in TreeLeaves }

ParseSources == { << >>, <<JRule("r0", LengthOver6("password"))>> }

\* handler h1 creates one rule, named rx, from one tree
ParseScripts ==
    { [p \in Procs |-> IF p = "h1" THEN <<Request("create", JRule("rx", t))>> ELSE << >>]
      : t \in Trees(MaxDepth) }

InitParse == InitWith(ParseSources, ParseScripts)

NextParse ==
    \/ LoadSystemRules
    \/ \E p \in Procs :
          \/ RLock(p)
          \/ Lock(p)
          \/ SaveLookup(p)
          \/ SaveStoreNew(p)
          \/ SaveCheckDuplicate(p)
          \/ SaveStoreAdd(p)
          \/ CreateRule(p)

SpecParse == InitParse /\ [][NextParse]_vars

\* ------------------------------------------------------------------------
\* Specification of startup loading followed by admin requests
\* ------------------------------------------------------------------------
\* the largest number of requests a handler serves one after the other
MaxRequests == 2

LoadEntries ==
    << JRule("password_length", PasswordLength),
       \* the same name under the same field again
       JRule("password_length", EqualsZero("password")),
       \* two distinct fields
       JRule("two_fields", JTerm("OR", <<LengthOver6("username"), EqualsZero("password")>>)),
       \* no field at all
       JRule("no_field", JTerm("EQUAL_TO", <<JValue("0"), JValue("0")>>)),
       \* an operator that is not registered
       JRule("unknown_op", JTerm("NOPE", <<JField("username")>>)),
       \* none of the three shapes
       JRule("bad_shape", JObj([operands |-> JList(<< >>)])),
       JRule("username_length", LengthOver6("username")),
       \* a rule that is not an object
       JRule("not_object", JStr("password")) >>

LoadRequests ==
    << Request("delete", JStr("password_length")),
       Request("create", JRule("password_length", LengthOver6("password"))),
       Request("create", JRule("password_zero", EqualsZero("password"))),
       Request("create", JRule("two_fields",
                               JTerm("AND", <<EqualsZero("username"), EqualsZero("password")>>))),
       Request("create", JRule("nested_unknown",
                               JTerm("OR", <<JTerm("NOPE", <<JField("password")>>),
                                             EqualsZero("password")>>))),
       Request("create", JRule("unknown_op", JTerm("NOPE", <<JField("password")>>))),
       Request("create", JRule("no_field", JValue("0"))),
       \* a term without operands
       Request("create", JRule("no_operands", JTerm("OR", << >>))) >>

LoadScripts ==
    { [p \in Procs |-> IF p = "h1" THEN s ELSE << >>]
      : s \in SubSequences(LoadRequests, MaxRequests) }

InitLoad == InitWith(SubSequences(LoadEntries, MaxRules), LoadScripts)

NextLoad ==
    \/ LoadSystemRules
    \/ \E p \in Procs :
          \/ RLock(p)
          \/ Lock(p)
          \/ SaveLookup(p)
          \/ SaveStoreNew(p)
          \/ SaveCheckDuplicate(p)
          \/ SaveStoreAdd(p)
          \/ CreateRule(p)
          \/ DeleteRule(p)

SpecLoad == InitLoad /\ [][NextLoad]_vars

\* ------------------------------------------------------------------------
\* Specification of the parser on definitions with defective nodes
\* ------------------------------------------------------------------------
DecodeGoodLeaves == { JField("password"), JValue("0") }

\* nodes that are not objects, objects with none of the keys field, value
\* and operator, and objects whose matched shape has a sub-field of the
\* wrong JSON type
DecodeBadNodes ==
    { JStr("password"), JNum(6), JNull, JList(<<JField("password")>>),
      JObj(EmptyMap),
      JObj([name |-> JStr("password")]),
      JObj([field |-> JNum(6)]),
      JObj([value |-> JList(<< >>)]),
      JObj([operator |-> JNum(6), operands |-> JList(<<JField("password")>>)]),
      JObj([operator |-> JStr("LENGTH"), operands |-> JField("password")]) }

DecodeOperators == { "OR", "LENGTH" }

RECURSIVE DecodeTrees(_)
\* the definitions of depth d or less over the good and the defective
\* nodes: a term has one operand, or that operand next to a field reference
DecodeTrees(d) ==
    IF d = 0 THEN DecodeGoodLeaves \cup DecodeBadNodes
    ELSE LET sub == DecodeTrees(d - 1)
         IN  sub
             \cup { JTerm(op, <<c>>) : op \in DecodeOperators, c \in sub }
             \cup { JTerm(op, <<c, JField("password")>>) : op \in DecodeOperators, c \in sub }
             \cup { JTerm(op, <<JField("password"), c>>) : op \in DecodeOperators, c \in sub }

\* rules.json is empty, holds one rule, or holds a rule that is a string
DecodeSources ==
    { << >>, <<JRule("r0", LengthOver6("password"))>>,
      <<JRule("r0", LengthOver6("password")), JRule("r1", JStr("password"))>> }

\* handler h1 creates one rule, named rx, from one definition
DecodeScripts ==
    { [p \in Procs |-> IF p = "h1" THEN <<Request("create", JRule("rx", t))>> ELSE << >>]
      : t \in DecodeTrees(MaxDepth) }

InitDecode == InitWith(DecodeSources, DecodeScripts)

SpecDecode == InitDecode /\ [][NextParse]_vars

\* ------------------------------------------------------------------------
\* Specification of the projector on nested documents
\* ------------------------------------------------------------------------
\* the largest number of object keys on the way to a leaf of a document
MaxNest == 3

\* a string and the three scalars that are not strings
ProjectLeaves == { JStr("0"), JNum(1), JBool(TRUE), JNull }

\* a list whose only element is a list: the projector skips the inner list
\* and so the object in it
ListInList == JList(<<JList(<<JObj([a |-> JNum(1)])>>)>>)

RECURSIVE ProjectValues(_)
\* the values nested d deep or less: a leaf or ListInList, an object with
\* the key a or with the keys a and b, and a list of a value and an object
\* with the key b
ProjectValues(d) ==
    IF d = 0 THEN ProjectLeaves \cup {ListInList}
    ELSE LET sub == ProjectValues(d - 1)
         IN  ProjectLeaves \cup {ListInList}
             \cup { JObj([a |-> v]) : v \in sub }
             \cup { JObj([a |-> v, b |-> JStr("7")]) : v \in sub }
             \cup { JList(<<v, JObj([b |-> JStr("8")])>>) : v \in sub }

\* the documents: the key a, alone or next to a key with a number
ProjectDocs ==
    { JObj([a |-> v]) : v \in ProjectValues(MaxNest - 1) }
    \cup { JObj([a |-> v, c |-> JNum(1)]) : v \in ProjectValues(MaxNest - 1) }

\* rules bound to the dotted names of the leaves one, two and three keys deep
ProjectRules ==
    << JRule("top", EqualsZero("a")),
       JRule("top_length", LengthOver6("a")),
       JRule("nested", EqualsZero("a.a")),
       JRule("deep", EqualsZero("a.a.a")) >>

\* handler h1 evaluates one document with both strategies, one after the other
ProjectScripts ==
    { [p \in Procs |-> IF p = "h1" THEN <<Request("validate", d), Request("validate2", d)>>
                       ELSE << >>]
      : d \in ProjectDocs }

InitProject == InitWith(SubSequences(ProjectRules, MaxRules), ProjectScripts)

SpecProject == InitProject /\ [][NextEval]_vars

\* ------------------------------------------------------------------------
\* Specification of the operators, each applied to one value list
\* ------------------------------------------------------------------------
\* a function is called on its own, before init() has read a rule
InitCall(calls) ==
    /\ call \in calls
    /\ out = NoOut
    /\ rulesJson = << >>
    /\ script = [p \in Procs |-> << >>]
    /\ AllRegisteredRules = EmptyMap
    /\ heap = << >>
    /\ RegRuleLock = [writer |-> NoProc, readers |-> {}]
    /\ pc = [p \in Procs |-> IF p = Main THEN "load" ELSE "idle"]
    /\ cur = [p \in Procs |-> 0]
    /\ loc = [p \in Procs |-> LocInit]
    /\ ret = [p \in Procs |-> << >>]
    /\ saved = {}
    /\ crashed = "no"

\* the call returns r
Return(r) ==
    /\ out = NoOut
    /\ out' = [done |-> TRUE, ret |-> r]
    /\ UNCHANGED <<call, rulesJson, script, AllRegisteredRules, heap, RegRuleLock,
                   pc, cur, loc, ret, saved, crashed>>

\* the largest length of a value list
MaxOperands == 3

\* the values Evaluate yields: strings of fields and literals, the int of
\* LENGTH, the bools of the other operators, nil of a term without operands
OperandValues ==
    { StrV("0"), StrV("tesTer"), StrV("("), IntV(6), BoolV(TRUE), BoolV(FALSE), NilV }

OperandLists == UNION { [1..n -> OperandValues] : n \in 0..MaxOperands }

OperatorCalls ==
    { [fn |-> "RegisteredOperators", op |-> op, operands |-> l]
      : op \in OperatorNames, l \in OperandLists }

InitOperators == InitCall(OperatorCalls)

\* RegisteredOperators[op](operands)
ApplyOperator ==
    /\ call.fn = "RegisteredOperators"
    /\ Return(RegisteredOperators(call.op, call.operands))

SpecOperators == InitOperators /\ [][ApplyOperator]_vars

\* ------------------------------------------------------------------------
\* Specification of the evaluators on the password_length rule
\* ------------------------------------------------------------------------
\* the largest length of a password
MaxPasswordLen == 7

RECURSIVE PasswordsOf(_)
\* the passwords of n characters or less over a letter and a digit
PasswordsOf(n) ==
    IF n = 0 THEN {""}
    ELSE LET sub == PasswordsOf(n - 1)
         IN  sub \cup { s \o c : s \in sub, c \in {"a", "1"} }

\* rules.json holds password_length, alone or followed by password_number
PasswordSources ==
    { <<JRule("password_length", PasswordLength)>>,
      <<JRule("password_length", PasswordLength),
        JRule("password_number", JTerm("GREATER_THAN", <<JField("password"), JValue("6")>>))>> }

\* handler h1 evaluates one document with both strategies, one after the other
PasswordScripts ==
    { [p \in Procs |->
         IF p = "h1" THEN <<Request("validate", JObj([password |-> JStr(s)])),
                            Request("validate2", JObj([password |-> JStr(s)]))>>
         ELSE << >>]
      : s \in PasswordsOf(MaxPasswordLen) }

InitPassword == InitWith(PasswordSources, PasswordScripts)

SpecPassword == InitPassword /\ [][NextEval]_vars

\* ------------------------------------------------------------------------
\* Specification of one document evaluated twice on one registry
\* ------------------------------------------------------------------------
\* the documents of EvalDocs and one with a colliding path and a number
IdemDocs ==
    EvalDocs
    \cup { JObj([password |-> JStr("1234567"),
                 address |-> JList(<<JObj([zip_code |-> JStr("90067")]),
                                     JObj([zip_code |-> JStr("90210")])>>),
                 phone |-> JNum(424)]) }

\* handler h1 evaluates one document twice with one strategy
IdemScripts ==
    { [p \in Procs |-> IF p = "h1" THEN <<Request(kind, d), Request(kind, d)>> ELSE << >>]
      : kind \in {"validate", "validate2"}, d \in IdemDocs }

InitIdem == InitWith(SubSequences(EvalRules, MaxRules), IdemScripts)

SpecIdem == InitIdem /\ [][NextEval]_vars

\* ------------------------------------------------------------------------
\* Specification of TermOperand.Evaluate, one step of its loop at a time
\* ------------------------------------------------------------------------
EvalLeaves == { JField("password"), JValue("6") }

EvalOperators == { "GREATER_THAN", "LENGTH", "OR" }

RECURSIVE EvalTrees(_)
\* the definition trees of depth d or less: a term has no operand, one
\* operand, or two operands one of which is a leaf or LENGTH(password) > 6
EvalTrees(d) ==
    IF d = 0 THEN EvalLeaves
    ELSE LET sub == EvalTrees(d - 1)
             side == EvalLeaves \cup {LengthOver6("password")}
         IN  EvalLeaves
             \cup { JTerm(op, << >>) : op \in EvalOperators }
             \cup { JTerm(op, <<c>>) : op \in EvalOperators, c \in sub }
             \cup { JTerm(op, <<c, l>>) : op \in EvalOperators, c \in sub, l \in side }
             \cup { JTerm(op, <<l, c>>) : op \in EvalOperators, c \in sub, l \in side }

\* the operand tree the parser builds for a definition
OperandOf(t) == ConstructOperandListHelper(UnmarshalJSON(t).term, {}).operand

EvalFieldValues == { "", "7", "tesTer" }

EvaluateCalls ==
    { [fn |-> "Evaluate", operand |-> OperandOf(t), fieldValue |-> v]
      : t \in { u \in EvalTrees(MaxDepth) : OperandOf(u).kind = "TermOperand" },
        v \in EvalFieldValues }

InitEvaluate == InitCall(EvaluateCalls)

\* a step of the call
Step(o) ==
    /\ out' = o
    /\ UNCHANGED <<call, rulesJson, script, AllRegisteredRules, heap, RegRuleLock,
                   pc, cur, loc, ret, saved, crashed>>

\* lines 107-113: no operands, or an evalResult for the loop; evaluated
\* lists the children evaluated so far and applied counts the calls of the
\* operator function
EvaluateEnter ==
    /\ call.fn = "Evaluate"
    /\ out = NoOut
    /\ IF Len(call.operand.OperandList) = 0
         THEN Step([done |-> TRUE, ret |-> Ret(NilV, NoErr), i |-> 1,
                    evalResult |-> << >>, evaluated |-> << >>, applied |-> 0])
       ELSE Step([done |-> FALSE, ret |-> Ret(NilV, NoErr), i |-> 1,
                  evalResult |-> << >>, evaluated |-> << >>, applied |-> 0])

\* EvaluateChild that skips a child whose evaluation fails
EvaluateChild_GoesOnAfterError ==
    /\ call.fn = "Evaluate"
    /\ out # NoOut /\ ~out.done
    /\ out.i <= Len(call.operand.OperandList)
    /\ LET r == Evaluate(call.operand.OperandList[out.i], call.fieldValue)
       IN  IF r.err # NoErr
             THEN Step([out EXCEPT !.i = @ + 1,
                                   !.evalResult = Append(@, NilV),
                                   !.evaluated = Append(@, out.i)])
           ELSE Step([out EXCEPT !.i = @ + 1,
                                 !.evalResult = Append(@, r.val),
                                 !.evaluated = Append(@, out.i)])

\* lines 114-121: one turn of the loop over the operands
EvaluateChild ==
    /\ call.fn = "Evaluate"
    /\ out # NoOut /\ ~out.done
    /\ out.i <= Len(call.operand.OperandList)
    /\ LET r == Evaluate(call.operand.OperandList[out.i], call.fieldValue)
       IN  IF r.err # NoErr
             THEN Step([out EXCEPT !.done = TRUE,
                                   !.ret = Ret(NilV, r.err),
                                   !.evaluated = Append(@, out.i)])
           ELSE Step([out EXCEPT !.i = @ + 1,
                                 !.evalResult = Append(@, r.val),
                                 !.evaluated = Append(@, out.i)])

\* line 123: the operator function applied to evalResult
EvaluateApply ==
    /\ call.fn = "Evaluate"
    /\ out # NoOut /\ ~out.done
    /\ out.i > Len(call.operand.OperandList)
    /\ Step([out EXCEPT !.done = TRUE,
                        !.ret = RegisteredOperators(call.operand.ParseOperator,
                                                    out.evalResult),
                        !.applied = @ + 1])

NextEvaluate == EvaluateEnter \/ EvaluateChild \/ EvaluateApply

SpecEvaluate == InitEvaluate /\ [][NextEvaluate]_vars

\* ------------------------------------------------------------------------
\* Specification of the reducer on three partial states
\* ------------------------------------------------------------------------
\* the largest number of violated rules in a partial state
MaxViolated == 2

ViolatedNames == { "password_length", "username_length" }

\* what an executor returns for a rule that holds, and what the reducer
\* makes of results of which one or more have flag = false
PartialStates ==
    { [flag |-> TRUE, rules |-> << >>] }
    \cup { [flag |-> FALSE, rules |-> l]
           : l \in UNION { [1..n -> ViolatedNames] : n \in 0..MaxViolated } }

CombineCalls ==
    { [fn |-> "CombineResult", a |-> a, b |-> b, c |-> c]
      : a \in PartialStates, b \in PartialStates, c \in PartialStates }

InitCombine == InitCall(CombineCalls)

\* the orders in which three results can arrive
ArrivalOrders == { o \in [1..3 -> 1..3] : \A i, j \in 1..3 : i # j => o[i] # o[j] }

\* the reducer applied to two of the states, both ways round, and to the
\* three states from ValidatorState{flag: true} on (lines 94-95), in every
\* arrival order, folded from the left and grouped from the right
ApplyCombine ==
    /\ call.fn = "CombineResult"
    /\ LET x == <<call.a, call.b, call.c>>
           start == [flag |-> TRUE, rules |-> << >>]
       IN  Return([ab |-> CombineResult(call.a, call.b),
                   ba |-> CombineResult(call.b, call.a),
                   left |-> [o \in ArrivalOrders |->
                               CombineResult(CombineResult(CombineResult(start, x[o[1]]),
                                                           x[o[2]]), x[o[3]])],
                   right |-> [o \in ArrivalOrders |->
                                CombineResult(start,
                                              CombineResult(x[o[1]],
                                                            CombineResult(x[o[2]], x[o[3]])))]])

SpecCombine == InitCombine /\ [][ApplyCombine]_vars

\* ------------------------------------------------------------------------
\* Specification of the projector on documents with colliding paths
\* ------------------------------------------------------------------------
PathKeys == <<"a", "b", "c", "d">>

RECURSIVE Nested(_, _)
\* the object in which v is reached through the keys, one object per key
Nested(keys, v) ==
    IF Len(keys) = 1 THEN JObj(keys[1] :> v)
    ELSE JObj(keys[1] :> Nested(Tail(keys), v))

RECURSIVE JoinKeys(_)
\* the keys written as one key with dots in it
JoinKeys(keys) ==
    IF Len(keys) = 1 THEN keys[1] ELSE keys[1] \o "." \o JoinKeys(Tail(keys))

\* the object in which the first j of the n keys are written as one key with
\* dots in it and the other keys are nested below it
Joined(n, j, v) ==
    JObj(JoinKeys(SubSeq(PathKeys, 1, j))
            :> (IF j = n THEN v ELSE Nested(SubSeq(PathKeys, j + 1, n), v)))

\* two objects with distinct keys as one object
Merge(o1, o2) == JObj(o1.m @@ o2.m)

\* the string leaf n keys deep, alone; twice in one document, with its first
\* j and its first k keys joined (once when j = k); and in two sibling
\* objects of a list
CollideBase ==
    UNION { { Joined(n, j, JStr("0")) : j \in 1..n } : n \in 1..MaxNest } \cup
    UNION { { Merge(Joined(n, j, JStr("0")), Joined(n, k, JStr("7")))
              : j \in 1..n, k \in 1..n } : n \in 1..MaxNest } \cup
    { Nested(SubSeq(PathKeys, 1, n - 1),
             JList(<<JObj(PathKeys[n] :> JStr("0")), JObj(PathKeys[n] :> JStr("7"))>>))
      : n \in 2..MaxNest }

\* the documents: as they are, next to another string, and next to a number
CollideDocs ==
    { d \in CollideBase : TRUE }
    \cup { Merge(d, JObj("z" :> JStr("tesTer"))) : d \in CollideBase }
    \cup { Merge(d, JObj("z" :> JNum(1))) : d \in CollideBase }

\* rules bound to the dotted names of the leaves two and three keys deep
CollideRules ==
    << JRule("two", EqualsZero("a.b")),
       JRule("two_length", LengthOver6("a.b")),
       JRule("three", EqualsZero("a.b.c")) >>

\* handler h1 evaluates one document with both strategies, one after the other
CollideScripts ==
    { [p \in Procs |-> IF p = "h1" THEN <<Request("validate", d), Request("validate2", d)>>
                       ELSE << >>]
      : d \in CollideDocs }

InitCollide == InitWith(SubSequences(CollideRules, MaxRules), CollideScripts)

SpecCollide == InitCollide /\ [][NextEval]_vars

\* ------------------------------------------------------------------------
\* Specification of the parser on nodes with several of the three keys
\* ------------------------------------------------------------------------
ShapeLeaves == { JField("password"), JValue("0") }

\* the subsets of the keys a node is classified by
ShapeKeySets == SUBSET {"field", "value", "operator"}

\* the object with the keys of K and the key operands
ShapeNode(K, operands) ==
    JObj([k \in K \cup {"operands"} |->
            CASE k = "field" -> JStr("username")
              [] k = "value" -> JStr("6")
              [] k = "operator" -> JStr("OR")
              [] k = "operands" -> JList(operands)])

\* no operand, one operand of sub, or an operand of sub before or after a leaf
ShapeOperands(sub) ==
    { << >> } \cup { <<c>> : c \in sub }
    \cup { <<c, l>> : c \in sub, l \in ShapeLeaves }
    \cup { <<l, c>> : c \in sub, l \in ShapeLeaves }

RECURSIVE ShapeTrees(_)
\* the definitions of depth d or less: a leaf, a node with any keys but the
\* operator key alone over leaves, and a node with the operator key alone
\* over definitions of depth d - 1
ShapeTrees(d) ==
    IF d = 0 THEN ShapeLeaves
    ELSE ShapeLeaves
         \cup { ShapeNode(K, ops) : K \in ShapeKeySets \ {{"operator"}},
                                    ops \in ShapeOperands(ShapeLeaves) }
         \cup { ShapeNode({"operator"}, ops) : ops \in ShapeOperands(ShapeTrees(d - 1)) }

ShapeCalls == { [fn |-> "ParseTerm", data |-> t] : t \in ShapeTrees(MaxDepth) }

InitShape == InitCall(ShapeCalls)

\* Term.UnmarshalJSON on the definition and, when it returns nil,
\* ConstructOperandListHelper on the Term, as CreateRule calls them
ParseTerm ==
    /\ call.fn = "ParseTerm"
    /\ LET d == UnmarshalJSON(call.data)
           c == ConstructOperandListHelper(d.term, {})
       IN  IF d.err # NoErr THEN Return([operand |-> NilOperand, err |-> d.err])
           ELSE Return([operand |-> c.operand, err |-> c.err])

SpecShape == InitShape /\ [][ParseTerm]_vars

\* ------------------------------------------------------------------------
\* Specification of validation requests next to concurrent registrations
\* ------------------------------------------------------------------------
SnapshotSources == { << >>, <<JRule("r0", LengthOver6("password"))>> }

SnapshotDoc == JObj([password |-> JStr("tesTer"), username |-> JStr("bill")])

SnapshotRequests ==
    << Request("create", JRule("r1", EqualsZero("password"))),
       Request("create", JRule("r2", LengthOver6("username"))),
       Request("validate", SnapshotDoc),
       Request("validate2", SnapshotDoc) >>

InitSnapshot == InitWith(SnapshotSources, OneRequestScripts(SnapshotRequests))

\* the collection of the contexts goes one field at a time
NextSnapshot ==
    \/ LoadSystemRules
    \/ \E p \in Procs :
          \/ RLock(p)
          \/ Lock(p)
          \/ SaveLookup(p)
          \/ SaveStoreNew(p)
          \/ SaveCheckDuplicate(p)
          \/ SaveStoreAdd(p)
          \/ CreateRule(p)
          \/ ValidateJSONData(p)
          \/ ValidateCollectField(p)
          \/ ValidateEvaluate(p)
          \/ Validate2(p)
          \/ Validate2CollectField(p)
          \/ Validate2Result(p)
          \/ \E j \in 1..MaxRules : ExecutorRun(p, j)
    \/ \E p, q \in Procs : ConcurrentMapAccess(p, q)

SpecSnapshot == InitSnapshot /\ [][NextSnapshot]_vars

\* ------------------------------------------------------------------------
\* Specification of concurrent calls under fair scheduling
\* ------------------------------------------------------------------------
LiveSources == { << >>, <<JRule("r0", EqualsZero("password"))>> }

LiveDoc == JObj([password |-> JStr("0")])

LiveRequests ==
    << Request("create", JRule("r1", EqualsZero("password"))),
       Request("create", JRule("r2", EqualsZero("password"))),
       Request("create", JRule("r1", EqualsZero("username"))),
       Request("validate", LiveDoc),
       Request("validate2", LiveDoc) >>

InitLive == InitWith(LiveSources, OneRequestScripts(LiveRequests))

\* the steps of goroutine p inside SaveRuleToRegister and inside the two
\* evaluators, after the first step of the call
CallStep(p) ==
    \/ RLock(p)
    \/ Lock(p)
    \/ SaveLookup(p)
    \/ SaveStoreNew(p)
    \/ SaveCheckDuplicate(p)
    \/ SaveStoreAdd(p)
    \/ ValidateCollect(p)
    \/ ValidateEvaluate(p)
    \/ Validate2Collect(p)
    \/ Validate2Result(p)
    \/ \E j \in 1..MaxRules : ExecutorRun(p, j)

NextLive ==
    \/ LoadSystemRules
    \/ \E p \in Procs :
          \/ CallStep(p)
          \/ CreateRule(p)
          \/ ValidateJSONData(p)
          \/ Validate2(p)
    \/ \E p, q \in Procs : ConcurrentMapAccess(p, q)

\* the Go scheduler runs every goroutine that can run, and a goroutine
\* blocked in RLock() or Lock() goes on once the lock stays free for it;
\* when a request arrives is not up to the scheduler
SpecLive == InitLive /\ [][NextLive]_vars /\ \A p \in Procs : WF_vars(CallStep(p))

\* ------------------------------------------------------------------------
\* Properties
\* ------------------------------------------------------------------------
Range(seq) == { seq[j] : j \in DOMAIN seq }

LastRet(p) == ret[p][Len(ret[p])]

\* p's last request was of this kind and has been answered
Returned(p, kind) ==
    /\ pc[p] = "done"
    /\ Len(ret[p]) > 0
    /\ LastRet(p).kind = kind

\* C1: on one document and one registry, the sequential and the fan-out
\* evaluation return the same passed flag and the same set of violated rule
\* names, also when a matched rule's evaluation returns an error.
C1_SameOutcome ==
    \A p \in Handlers :
        ( /\ Len(ret[p]) = 2
          /\ ret[p][1].kind = "validate" /\ ret[p][1].err = NoErr
          /\ ret[p][2].kind = "validate2" /\ ret[p][2].err = NoErr )
        => /\ ret[p][1].flag = ret[p][2].flag
           /\ Range(ret[p][1].rules) = Range(ret[p][2].rules)

\* SaveRuleToRegister was entered by handler p for (field, name) and returned
SaveReturnedFor(p, field, name) ==
    /\ Returned(p, "create")
    /\ LastRet(p).err \in {NoErr, DuplicateRuleError}
    /\ loc[p].fieldName = field
    /\ loc[p].ruleName = name

\* the tree the registry holds for (field, name), NilOperand when none
StoredRule(field, name) ==
    IF field \in DOMAIN AllRegisteredRules
       /\ name \in DOMAIN heap[AllRegisteredRules[field]]
      THEN heap[AllRegisteredRules[field]][name]
    ELSE NilOperand

\* C2: of two SaveRuleToRegister calls with the same field and the same rule
\* name, in any interleaving, exactly one returns nil, the other returns the
\* duplicate-rule error, and the stored tree is the one of the successful call.
C2_SecondIsDuplicate ==
    \A p, q \in Handlers :
        ( /\ p # q
          /\ SaveReturnedFor(p, loc[p].fieldName, loc[p].ruleName)
          /\ SaveReturnedFor(q, loc[p].fieldName, loc[p].ruleName)
          /\ \A r \in Procs \ {p, q} :
                ~(loc[r].fieldName = loc[p].fieldName /\ loc[r].ruleName = loc[p].ruleName) )
        => \E w \in {p, q} :
              /\ LastRet(w).err = NoErr
              /\ \A l \in {p, q} \ {w} : LastRet(l).err = DuplicateRuleError
              /\ StoredRule(loc[p].fieldName, loc[p].ruleName) = loc[w].rule

\* the lines at which a goroutine reads, and writes, AllRegisteredRules or
\* one of its rule maps
ReadLines == {"Save387", "Save398", "Seq73", "Con81"}
WriteLines == {"Save395", "Save403"}

\* the rule map p is accessing at its line, 0 for AllRegisteredRules itself
\* and for the loops that go through every map
AccessedMap(p) == IF pc[p] \in {"Save398", "Save403"} THEN loc[p].rules ELSE 0

\* C3: every read of the registry happens under the read lock and every
\* write under the write lock, and no goroutine reads AllRegisteredRules or
\* a rule map while another one writes it.
C3_AccessUnderLock ==
    /\ \A p \in Procs :
          /\ pc[p] \in ReadLines => p \in RegRuleLock.readers
          /\ pc[p] \in WriteLines => RegRuleLock.writer = p
    /\ \A p, q \in Procs :
          (p # q /\ pc[p] \in ReadLines /\ pc[q] \in WriteLines)
          => ( /\ AccessedMap(p) # AccessedMap(q)
               /\ AccessedMap(p) # 0 )

\* C4: once SaveRuleToRegister has returned nil for (field, name), the entry
\* stays in the registry, bound to the same tree, in every later state.
C4_Additive ==
    \A e \in saved : StoredRule(e.field, e.name) = e.rule

\* the value and error of the rule of context ctx
ContextResult(ctx) == Evaluate(ctx.Rule, ctx.FieldValue)

\* C5: a matched rule whose evaluation returns an error leaves the flag
\* unchanged and is not among the violated rules, and the other matched rules
\* are tallied, in the sequential and in the fan-out strategy alike.
C5_ErrorNotCounted ==
    \A p \in Handlers :
        ( /\ Returned(p, "validate") \/ Returned(p, "validate2")
          /\ LastRet(p).err = NoErr
          /\ \E j \in DOMAIN loc[p].contexts :
                ContextResult(loc[p].contexts[j]).err # NoErr )
        => LET good == { j \in DOMAIN loc[p].contexts :
                           ContextResult(loc[p].contexts[j]).err = NoErr }
               bad == { j \in good : ~ContextResult(loc[p].contexts[j]).val.b }
           IN  /\ LastRet(p).flag = (bad = {})
               /\ Range(LastRet(p).rules) = { loc[p].contexts[j].RuleName : j \in bad }

\* the value and error of the rule registered as (field, name) on the
\* projected fields
RuleResult(m, inputFields) ==
    Evaluate(heap[AllRegisteredRules[m[1]]][m[2]], inputFields[m[1]])

\* C6: the outcome of ValidateInputJSONByRules starts as passed = true with
\* no violated rules, and ends with passed = the AND of the boolean results of
\* the rules registered under the fields of the document and with the violated
\* rules being exactly the names of the rules whose result was false.
C6_SequentialOutcome ==
    \A p \in Handlers :
        /\ (pc[p] = "Seq90" /\ loc[p].i = 1)
              => loc[p].result = [flag |-> TRUE, rules |-> << >>]
        /\ (Returned(p, "validate") /\ LastRet(p).err = NoErr)
              => LET matched == MatchedRules(loc[p].inputFields)
                     good == { m \in matched :
                                 RuleResult(m, loc[p].inputFields).err = NoErr }
                     bad == { m \in good : ~RuleResult(m, loc[p].inputFields).val.b }
                 IN  /\ LastRet(p).flag = (bad = {})
                     /\ Range(LastRet(p).rules) = { m[2] : m \in bad }
                     /\ Len(LastRet(p).rules) = Cardinality(bad)

\* a sequential evaluation has returned: two or more rules matched, one held
\* and one was violated, the document has a field without rules and the
\* registry has rules for a field the document lacks
C6_Witness ==
    \E p \in Handlers :
        /\ Returned(p, "validate") /\ LastRet(p).err = NoErr
        /\ LET matched == MatchedRules(loc[p].inputFields)
           IN  /\ \E m \in matched : /\ RuleResult(m, loc[p].inputFields).err = NoErr
                                     /\ RuleResult(m, loc[p].inputFields).val.b
               /\ \E m \in matched : /\ RuleResult(m, loc[p].inputFields).err = NoErr
                                     /\ ~RuleResult(m, loc[p].inputFields).val.b
        /\ DOMAIN loc[p].inputFields \ DOMAIN AllRegisteredRules # {}
        /\ DOMAIN AllRegisteredRules \ DOMAIN loc[p].inputFields # {}

RECURSIVE TermFieldNames(_)
\* the names carried by the FieldOperand nodes of a parsed definition
TermFieldNames(t) ==
    CASE t.Value.kind = "FieldOperand" -> {t.Value.Name}
      [] t.Value.kind = "TermOperand" ->
            UNION { TermFieldNames(t.Value.ParseOperands[j])
                    : j \in DOMAIN t.Value.ParseOperands }
      [] OTHER -> {}

RECURSIVE OperandFieldNames(_)
\* the names carried by the FieldOperand nodes of an operand tree
OperandFieldNames(o) ==
    CASE o.kind = "FieldOperand" -> {o.Name}
      [] o.kind = "TermOperand" ->
            UNION { OperandFieldNames(o.OperandList[j]) : j \in DOMAIN o.OperandList }
      [] OTHER -> {}

\* the request p is serving or has served last
LastRequest(p) == script[p][cur[p]]

\* the trees the registry holds
StoredRules ==
    UNION { { heap[AllRegisteredRules[f]][n] : n \in DOMAIN heap[AllRegisteredRules[f]] }
            : f \in DOMAIN AllRegisteredRules }

\* C7: a rule tree whose FieldOperand nodes carry two or more distinct names
\* is rejected with the multi-field error, at any depth and under any
\* operator, and is not stored.
C7_MultiFieldRejected ==
    /\ \A p \in Handlers :
          ( /\ Returned(p, "create")
            /\ DecodeRuleNode(LastRequest(p).body).err = NoErr
            /\ Cardinality(TermFieldNames(DecodeRuleNode(LastRequest(p).body).RuleContent)) >= 2 )
          => LastRet(p).err = MultiFieldError
    /\ \A o \in StoredRules : Cardinality(OperandFieldNames(o)) < 2

\* a create request for a tree that names two fields, one of them two levels
\* below the root, has been answered
C7_Witness ==
    \E p \in Handlers :
        /\ Returned(p, "create")
        /\ LET r == DecodeRuleNode(LastRequest(p).body)
           IN  /\ r.err = NoErr
               /\ Cardinality(TermFieldNames(r.RuleContent)) >= 2
               /\ r.RuleContent.Value.kind = "TermOperand"
               /\ \E j \in DOMAIN r.RuleContent.Value.ParseOperands :
                     LET c == r.RuleContent.Value.ParseOperands[j]
                     IN  /\ c.Value.kind = "TermOperand"
                         /\ TermFieldNames(c) # {}

\* an entry of rules.json that does not decode, names an unknown operator,
\* has zero or several fields, or repeats a name registered under its field
DefectiveEntry(j) ==
    LET r == DecodeRuleNode(rulesJson[j])
        c == ConstructOperandListHelper(r.RuleContent, {})
    IN  \/ r.err # NoErr
        \/ Cardinality(c.fieldList) # 1
        \/ \E k \in 1..(j - 1) :
              LET rk == DecodeRuleNode(rulesJson[k])
                  ck == ConstructOperandListHelper(rk.RuleContent, {})
              IN  rk.err = NoErr /\ rk.Name = r.Name /\ ck.fieldList = c.fieldList

\* C8: startup loading stops at the first defective entry of the rule source:
\* loadSystemRules never goes on to the entries after it.
C8_LoadErrorsFatal ==
    \A j \in 1..Len(rulesJson) :
        DefectiveEntry(j) => (loc[Main].i <= j /\ pc[Main] # "serving")

\* C9: a DeleteRule request leaves the registry as it is and is answered with
\* an error, never with a success status.
C9_DeleteNotSupported ==
    \A p \in Handlers :
        Returned(p, "delete")
        => /\ LastRet(p).status # StatusOK
           /\ LastRet(p).result = "error"

RECURSIVE HasUnknownOperator(_)
\* some term of the definition, the root or a nested one, names an operator
\* that is not registered
HasUnknownOperator(node) ==
    /\ node.jt = "object"
    /\ "field" \notin DOMAIN node.m
    /\ "value" \notin DOMAIN node.m
    /\ "operator" \in DOMAIN node.m
    /\ \/ node.m["operator"].s \notin OperatorNames
       \/ \E j \in DOMAIN node.m["operands"].items :
             HasUnknownOperator(node.m["operands"].items[j])

\* C10: a definition whose only defect is a term with an unregistered
\* operator, at the root or nested in operands, fails with
\* ParseRuleUnknownOperatorError.
C10_UnknownOperatorKind ==
    \A p \in Handlers :
        ( /\ Returned(p, "create")
          /\ HasUnknownOperator(LastRequest(p).body.m["rule"]) )
        => LastRet(p).err = ParseRuleUnknownOperatorError

RECURSIVE Malformed(_)
\* the definition node matches none of the three shapes, or its matched
\* shape (field before value before operator) has a sub-field of the wrong
\* JSON type, or one of the operands of its term shape is such a node
Malformed(node) ==
    IF node.jt # "object" THEN TRUE
    ELSE IF "field" \in DOMAIN node.m THEN node.m["field"].jt # "string"
    ELSE IF "value" \in DOMAIN node.m THEN node.m["value"].jt # "string"
    ELSE IF "operator" \in DOMAIN node.m
      THEN \/ node.m["operator"].jt # "string"
           \/ /\ "operands" \in DOMAIN node.m
              /\ \/ node.m["operands"].jt # "list"
                 \/ \E j \in DOMAIN node.m["operands"].items :
                       Malformed(node.m["operands"].items[j])
    ELSE TRUE

\* C11: a definition with a node that matches none of the three shapes, that
\* is not an object, or whose matched shape has malformed sub-fields makes
\* the parser return ParseRuleJsonDecodingError; the parser does not panic,
\* neither while loading rules.json nor in a create request.
C11_MalformedIsDecodeError ==
    /\ crashed # "panic"
    /\ \A p \in Handlers :
          ( /\ Returned(p, "create")
            /\ Malformed(LastRequest(p).body.m["rule"]) )
          => LastRet(p).err = ParseRuleJsonDecodingError

RECURSIVE DocLeaves(_, _, _)
\* the leaves of the object m that are values of object keys, reached
\* through nested objects and through objects that are elements of a list:
\* path is the sequence of object keys on the way, addr tells two leaves with
\* the same path apart (it also holds the list positions)
DocLeaves(m, path, addr) ==
    UNION { LET v == m[k] IN
            CASE v.jt = "object" -> DocLeaves(v.m, Append(path, k), Append(addr, k))
              [] v.jt = "list" ->
                    UNION { IF v.items[j].jt = "object"
                              THEN DocLeaves(v.items[j].m, Append(path, k),
                                             addr \o <<k, Itoa(j)>>)
                            ELSE {}
                            : j \in DOMAIN v.items }
              [] OTHER -> {[path |-> Append(path, k), addr |-> Append(addr, k), leaf |-> v]}
            : k \in DOMAIN m }

RECURSIVE Dotted(_)
\* k1.k2. ... .kn
Dotted(path) ==
    IF Len(path) = 1 THEN path[1]
    ELSE Dotted(SubSeq(path, 1, Len(path) - 1)) \o "." \o path[Len(path)]

\* p holds the projection of its request
Projected(p) == pc[p] \in {"Seq72", "Seq73", "Seq90", "Con80", "Con81", "Con94"}

\* C12: every string leaf reached through the object keys k1, ..., kn is
\* recorded under the key k1.k2. ... .kn with its value, and the rules bound
\* to that dotted name are among the matched rules.
C12_DottedPath ==
    \A p \in Handlers :
        Projected(p)
        => \A l \in DocLeaves(LastRequest(p).body.m, << >>, << >>) :
              l.leaf.jt = "string"
              => /\ Dotted(l.path) \in DOMAIN loc[p].inputFields
                 /\ loc[p].inputFields[Dotted(l.path)] = l.leaf.s
                 /\ (pc[p] \in {"Seq90", "Con94"}
                     /\ Dotted(l.path) \in DOMAIN AllRegisteredRules)
                    => \E j \in DOMAIN loc[p].contexts :
                          loc[p].contexts[j].FieldValue = l.leaf.s

UnsupportedTypes == {"number", "bool", "null"}

RECURSIVE ContainsUnsupported(_)
\* some object anywhere in v has a key whose value is a number, a boolean
\* or null
ContainsUnsupported(v) ==
    CASE v.jt = "object" ->
            \E k \in DOMAIN v.m : \/ v.m[k].jt \in UnsupportedTypes
                                  \/ ContainsUnsupported(v.m[k])
      [] v.jt = "list" -> \E j \in DOMAIN v.items : ContainsUnsupported(v.items[j])
      [] OTHER -> FALSE

\* a number, a boolean or null is the value of an object key reached
\* through nested objects and objects that are elements of a list
ReachedUnsupported(doc) ==
    \E l \in DocLeaves(doc.m, << >>, << >>) : l.leaf.jt \in UnsupportedTypes

\* two string leaves of the document have the same path
CollidingLeaves(doc) ==
    \E l1, l2 \in DocLeaves(doc.m, << >>, << >>) :
        /\ l1.addr # l2.addr
        /\ l1.path = l2.path
        /\ l1.leaf.jt = "string" /\ l2.leaf.jt = "string"

IsDuplicatedFieldError(err) ==
    LET prefix == DuplicatedFieldError("")
    IN  Len(err) >= Len(prefix) /\ SubSeq(err, 1, Len(prefix)) = prefix

\* p has started a validation request, sequential or fan-out
Validating(p) ==
    /\ cur[p] > 0
    /\ pc[p] # "idle"
    /\ LastRequest(p).kind \in {"validate", "validate2"}

\* the request of p has returned err with no outcome and without collecting
\* or evaluating a rule
FailedBeforeRules(p) ==
    /\ pc[p] = "done"
    /\ Len(ret[p]) = cur[p]
    /\ LastRet(p).err # NoErr
    /\ LastRet(p).flag = FALSE /\ LastRet(p).rules = << >>
    /\ loc[p].contexts = << >>

OperatorArity(op) == IF op = "LENGTH" THEN 1 ELSE 2

OperatorTypes(op) ==
    CASE op \in {"LENGTH", "REGEX_MATCH"} -> {"string"}
      [] op \in {"EQUAL_TO", "GREATER_THAN"} -> {"string", "int"}
      [] op \in {"OR", "AND"} -> {"bool"}

\* C14: an operator applied to a value list of the wrong length, or to a
\* value of a type it does not accept, returns an error and no result value.
C14_OperatorsValidate ==
    (out # NoOut /\ call.fn = "RegisteredOperators")
    => ( ( \/ Len(call.operands) # OperatorArity(call.op)
           \/ \E j \in DOMAIN call.operands :
                 call.operands[j].t \notin OperatorTypes(call.op) )
         => /\ out.ret.err # NoErr
            /\ out.ret.val = NilV )

\* the names of the rules the registry holds
StoredNames ==
    UNION { DOMAIN heap[AllRegisteredRules[f]] : f \in DOMAIN AllRegisteredRules }

C16_Idempotent ==
    \A p \in Handlers :
        Len(ret[p]) = 2
        => /\ (ret[p][1].err = NoErr) <=> (ret[p][2].err = NoErr)
           /\ ret[p][1].err = NoErr
                 => /\ ret[p][1].flag = ret[p][2].flag
                    /\ Range(ret[p][1].rules) = Range(ret[p][2].rules)
                    /\ ret[p][1].status = ret[p][2].status

\* the second evaluation of a document has returned an outcome: two or more
\* rules matched, one held and one was violated
C16_Witness ==
    \E p \in Handlers :
        /\ Len(ret[p]) = 2
        /\ ret[p][2].err = NoErr
        /\ \E j, k \in DOMAIN loc[p].contexts :
              /\ ContextResult(loc[p].contexts[j]).err = NoErr
              /\ ContextResult(loc[p].contexts[k]).err = NoErr
              /\ ContextResult(loc[p].contexts[j]).val.b
              /\ ~ContextResult(loc[p].contexts[k]).val.b

\* C17: a create request that fails leaves the registry as it was: the step
\* that answers it with an error changes neither AllRegisteredRules nor a rule
\* map, and every step that does change them is the last step of a
\* SaveRuleToRegister call that returns nil and adds the caller's own rule.
C17_FailedCreateKeepsRegistry ==
    [][ /\ \A p \in Handlers :
              ( /\ pc[p] # "done" /\ pc'[p] = "done"
                /\ ret'[p][Len(ret'[p])].kind = "create"
                /\ ret'[p][Len(ret'[p])].err # NoErr )
              => UNCHANGED <<AllRegisteredRules, heap>>
        /\ (AllRegisteredRules' # AllRegisteredRules \/ heap' # heap)
              => \E p \in Procs :
                    /\ pc[p] \in WriteLines
                    /\ p \in Handlers
                          => /\ pc'[p] = "done"
                             /\ Len(ret'[p]) = Len(ret[p]) + 1
                             /\ ret'[p][Len(ret'[p])].err = NoErr
                    /\ \A f \in DOMAIN AllRegisteredRules :
                          /\ f \in DOMAIN AllRegisteredRules'
                          /\ \A n \in DOMAIN heap[AllRegisteredRules[f]] :
                                /\ n \in DOMAIN heap'[AllRegisteredRules'[f]]
                                /\ heap'[AllRegisteredRules'[f]][n]
                                      = heap[AllRegisteredRules[f]][n]
      ]_vars

\* two create requests have been answered with an error while the registry
\* held rules: one with the duplicate-rule error, the other with another one
C17_Witness ==
    \E p \in Handlers :
        /\ Returned(p, "create")
        /\ Len(ret[p]) = 2
        /\ ret[p][1].kind = "create"
        /\ ret[p][1].err = DuplicateRuleError
        /\ ret[p][2].err \notin {NoErr, DuplicateRuleError}
        /\ AllRegisteredRules # EmptyMap

\* C18: two SaveRuleToRegister calls with one rule name and two distinct
\* field names, in any interleaving and with no other call registering under
\* these fields at the same time, both return nil, and afterwards each
\* field's map holds the tree of its own call under that name.
C18_SameNameOtherField ==
    \A p, q \in Handlers :
        ( /\ SaveReturnedFor(p, loc[p].fieldName, loc[p].ruleName)
          /\ SaveReturnedFor(q, loc[q].fieldName, loc[p].ruleName)
          /\ loc[p].fieldName # loc[q].fieldName
          /\ \A r \in Handlers \ {p, q} :
                loc[r].fieldName \notin {loc[p].fieldName, loc[q].fieldName} )
        => /\ LastRet(p).err = NoErr
           /\ LastRet(q).err = NoErr
           /\ StoredRule(loc[p].fieldName, loc[p].ruleName) = loc[p].rule
           /\ StoredRule(loc[q].fieldName, loc[q].ruleName) = loc[q].rule

\* two handlers have registered the rule name r1, one under password, whose
\* map held a rule from rules.json, and one under username, which had no map
C18_Witness ==
    \E p, q \in Handlers :
        /\ SaveReturnedFor(p, "password", "r1")
        /\ SaveReturnedFor(q, "username", "r1")
        /\ LastRet(p).err = NoErr /\ LastRet(q).err = NoErr
        /\ StoredRule("password", "r0") # NilOperand

\* C19: TermOperand.Evaluate with at least one child evaluates its children
\* in child order, each once; it stops at the first child that fails and
\* returns that child's error without calling the operator function; when
\* every child succeeds it calls the operator function once, on the child
\* values in child order.
C19_LeftToRight ==
    (call.fn = "Evaluate" /\ out # NoOut /\ Len(call.operand.OperandList) >= 1)
    => LET list == call.operand.OperandList
           n == Len(list)
           child(j) == Evaluate(list[j], call.fieldValue)
           failing == { j \in 1..n : child(j).err # NoErr }
           first == IF failing = {} THEN n
                    ELSE CHOOSE j \in failing : \A k \in failing : j <= k
       IN  /\ \A j \in DOMAIN out.evaluated : out.evaluated[j] = j
           /\ Len(out.evaluated) <= first
           /\ ~out.done => out.applied = 0
           /\ out.done
                 => /\ Len(out.evaluated) = first
                    /\ IF failing # {}
                         THEN /\ out.ret = Ret(NilV, child(first).err)
                              /\ out.applied = 0
                       ELSE /\ out.ret = RegisteredOperators(call.operand.ParseOperator,
                                                             [j \in 1..n |-> child(j).val])
                            /\ out.applied = 1
                    /\ out.ret = Evaluate(call.operand, call.fieldValue)

\* Evaluate has returned the error of the first of two children, a term,
\* without evaluating the second
C19_Witness ==
    /\ call.fn = "Evaluate"
    /\ out # NoOut /\ out.done
    /\ Len(call.operand.OperandList) = 2
    /\ call.operand.OperandList[1].kind = "TermOperand"
    /\ out.evaluated = <<1>>
    /\ out.ret.err # NoErr
    /\ out.applied = 0

\* the number of times x occurs in seq
Occurrences(seq, x) == Cardinality({ j \in DOMAIN seq : seq[j] = x })

SameMultiset(s1, s2) ==
    \A x \in Range(s1) \cup Range(s2) : Occurrences(s1, x) = Occurrences(s2, x)

\* C20: the flag of CombineResult is the AND of the two flags and its rules
\* are the concatenation of the two lists; combining a and b either way round
\* gives the same flag and the same multiset of names; and the three states
\* combined from flag = true on, in any order and either grouping, give one
\* flag, the AND of the three, and one multiset of names.
C20_CombineAlgebra ==
    (call.fn = "CombineResult" /\ out # NoOut)
    => LET r == out.ret
           all == call.a.rules \o call.b.rules \o call.c.rules
       IN  /\ r.ab.flag = (call.a.flag /\ call.b.flag)
           /\ r.ab.rules = call.a.rules \o call.b.rules
           /\ r.ba.flag = r.ab.flag
           /\ SameMultiset(r.ba.rules, r.ab.rules)
           /\ \A o \in ArrivalOrders :
                 /\ r.left[o] = r.right[o]
                 /\ r.left[o].flag = (call.a.flag /\ call.b.flag /\ call.c.flag)
                 /\ SameMultiset(r.left[o].rules, all)

\* the reducer has been applied to three states of which the first and the
\* last hold different violated rules and the second holds none
C20_Witness ==
    /\ call.fn = "CombineResult"
    /\ out # NoOut
    /\ call.b.flag
    /\ ~call.a.flag /\ ~call.c.flag
    /\ call.a.rules # << >> /\ call.c.rules # << >>
    /\ call.a.rules # call.c.rules
    /\ \E o1, o2 \in ArrivalOrders : out.ret.left[o1].rules # out.ret.left[o2].rules

\* C21: in every state of the registry, after startup loading and create
\* requests, each tree stored under the field F names exactly one field in
\* its FieldOperand nodes, and that field is F; a tree that names no field
\* (only literals, or a term without operands) is not stored.
C21_StoredTreeNamesItsField ==
    \A f \in DOMAIN AllRegisteredRules :
        \A n \in DOMAIN heap[AllRegisteredRules[f]] :
            OperandFieldNames(heap[AllRegisteredRules[f]][n]) = {f}

\* the registry holds trees under two fields, and a handler has been refused
\* a tree that names two fields and then a term without operands
C21_Witness ==
    /\ Cardinality(DOMAIN AllRegisteredRules) >= 2
    /\ \E p \in Handlers :
          /\ Returned(p, "create")
          /\ Len(ret[p]) = 2
          /\ ret[p][1].err = MultiFieldError
          /\ ret[p][2].err = MultiFieldError
          /\ Cardinality(TermFieldNames(DecodeRuleNode(script[p][1].body).RuleContent)) = 2
          /\ LET t == DecodeRuleNode(script[p][2].body).RuleContent
             IN  /\ t.Value.kind = "TermOperand"
                 /\ t.Value.ParseOperands = << >>

\* two string leaves of the document, reached through nested objects and
\* objects that are elements of a list, have the same dotted path
DottedCollision(doc) ==
    \E l1, l2 \in DocLeaves(doc.m, << >>, << >>) :
        /\ l1.addr # l2.addr
        /\ Dotted(l1.path) = Dotted(l2.path)
        /\ l1.leaf.jt = "string" /\ l2.leaf.jt = "string"

\* C22: a document in which two string leaves have the same dotted path (a
\* key in two sibling objects of a list, or a key with a dot in it that
\* equals the path of a nested leaf) fails with the duplicated-field error
\* in every traversal order of its keys, in both strategies; neither value
\* is kept.
C22_CollisionIsError ==
    \A p \in Handlers :
        (Validating(p) /\ DottedCollision(LastRequest(p).body))
        => /\ FailedBeforeRules(p)
           /\ IsDuplicatedFieldError(LastRet(p).err)

RECURSIVE Classified(_, _)
\* operand is what the priority field, value, operator makes of node: a
\* FieldOperand with the name of the field key, else a ValueOperand with the
\* literal of the value key, else a TermOperand with the operator and with
\* one child per entry of operands, in the order of the entries
Classified(node, operand) ==
    IF "field" \in DOMAIN node.m
      THEN operand = FieldOperand(node.m["field"].s)
    ELSE IF "value" \in DOMAIN node.m
      THEN operand = ValueOperand(node.m["value"].s)
    ELSE /\ "operator" \in DOMAIN node.m
         /\ operand.kind = "TermOperand"
         /\ operand.ParseOperator = node.m["operator"].s
         /\ Len(operand.OperandList) = Len(node.m["operands"].items)
         /\ \A j \in DOMAIN operand.OperandList :
               Classified(node.m["operands"].items[j], operand.OperandList[j])

\* C23: the parser classifies a node by the first of the keys field, value,
\* operator it carries, whatever its other keys: field makes a FieldOperand,
\* else value makes a ValueOperand, else operator makes a TermOperand whose
\* children are the entries of operands in their order; a definition with a
\* node that carries none of the three keys is no operand.
C23_ClassifiedByKeyPriority ==
    (call.fn = "ParseTerm" /\ out # NoOut)
    => IF Malformed(call.data) THEN out.ret.err # NoErr
       ELSE /\ out.ret.err = NoErr
            /\ Classified(call.data, out.ret.operand)

\* the parser has returned a term with two children in the order of their
\* entries: a FieldOperand made from a node that also carries the value, the
\* operator and the operands key, and the ValueOperand of a literal
C23_Witness ==
    /\ call.fn = "ParseTerm"
    /\ out # NoOut
    /\ out.ret.err = NoErr
    /\ out.ret.operand.kind = "TermOperand"
    /\ LET entries == call.data.m["operands"].items
       IN  /\ Len(entries) = 2
           /\ DOMAIN entries[1].m = {"field", "value", "operator", "operands"}
           /\ entries[2] = JValue("0")
    /\ out.ret.operand.OperandList = <<FieldOperand("username"), ValueOperand("0")>>

\* C24: for every rule the registry accepted and every document, both
\* evaluators return an outcome or an error: no request is aborted and the
\* process does not die in the conversion of a rule's result to a boolean,
\* also when the root of the rule yields a string or an int.
C24_NoCrashOnNonBoolean ==
    /\ crashed = "no"
    /\ \A p \in Handlers :
          (Returned(p, "validate") \/ Returned(p, "validate2"))
          => \A j \in DOMAIN ret[p] : ret[p][j].err # PanicErr

\* the lines at which a request is collecting its contexts
CollectLines == {"Seq73", "Con81"}

\* the (rule name, tree, field value) triples of a list of contexts
ContextTriples(contexts) ==
    { <<contexts[j].RuleName, contexts[j].Rule, contexts[j].FieldValue>>
      : j \in DOMAIN contexts }

\* the triples of the rules the registry holds under the fields of inputFields
RegisteredTriples(inputFields) ==
    { <<m[2], heap[AllRegisteredRules[m[1]]][m[2]], inputFields[m[1]]>>
      : m \in MatchedRules(inputFields) }

\* C25: a validation request collects its contexts from one state of the
\* registry: no step changes the registry while a request is collecting, the
\* contexts a request leaves the collection with are the rules the registry
\* holds at that moment under the fields of the document, each once, and the
\* registry is changed only by a SaveRuleToRegister call at its write lines,
\* never by a goroutine serving a validation request.
C25_AtomicSnapshot ==
    [][ /\ \A p \in Handlers :
              pc[p] \in CollectLines => UNCHANGED <<AllRegisteredRules, heap>>
        /\ \A p \in Handlers :
              (pc[p] \in CollectLines /\ pc'[p] \notin CollectLines)
              => /\ ContextTriples(loc'[p].contexts)
                       = RegisteredTriples(loc[p].inputFields)
                 /\ Len(loc'[p].contexts)
                       = Cardinality(MatchedRules(loc[p].inputFields))
        /\ (AllRegisteredRules' # AllRegisteredRules \/ heap' # heap)
              => \E q \in Procs :
                    /\ pc[q] \in WriteLines
                    /\ pc'[q] # pc[q]
                    /\ q \in Handlers => LastRequest(q).kind = "create"
      ]_vars

\* a request has collected the rule r1, registered by a concurrent create
\* request, and not the rule r2, which another create request registered
\* under a field of the document after the collection
C25_Witness ==
    \E p \in Handlers :
        /\ pc[p] \in {"Seq90", "Con94", "done"}
        /\ cur[p] = 1
        /\ LastRequest(p).kind \in {"validate", "validate2"}
        /\ \E j \in DOMAIN loc[p].contexts : loc[p].contexts[j].RuleName = "r1"
        /\ \A j \in DOMAIN loc[p].contexts : loc[p].contexts[j].RuleName # "r2"
        /\ StoredRule("username", "r2") # NilOperand

\* p is inside a call: a request it has started and not answered, or, for
\* the goroutine of init(), a SaveRuleToRegister call of loadSystemRules
InCall(p) == IF p = Main THEN pc[p] \notin {"load", "serving"}
             ELSE pc[p] \notin {"idle", "done"}

\* C26: with register calls and validation requests running concurrently
\* under fair scheduling, every call returns; a goroutine that is not inside
\* a call holds neither side of RegRuleLock; no goroutine waits for the lock
\* forever.
C26_EveryCallReturns ==
    /\ [](\A p \in Procs :
            ~InCall(p) => (p \notin RegRuleLock.readers /\ RegRuleLock.writer # p))
    /\ \A p \in Procs : InCall(p) ~> ~InCall(p)

====
